---- MODULE Spec2Model ----
(***************************************************************************)
(* A model of the question-selection engine (src/src/question/bank.py) and *)
(* of the grading / error-aggregation pipeline (src/src/ai.py,             *)
(* src/src/image_grading.py, src/src/main_layout.py) of aimath-helper,     *)
(* with the loader of the bank, the practices (src/src/practice), the      *)
(* sessions (src/src/session.py) and the handlers of the two interfaces    *)
(* (src/src/main_layout.py, src/src/complete_ui.py).                       *)
(*                                                                         *)
(* Python lists are sequences, dicts are functions whose DOMAIN is the set *)
(* of keys present (so dict.get(k, default) is Get(d, k, default)), and a  *)
(* random.sample is a nondeterministic choice among every ordered sample   *)
(* without replacement.                                                    *)
(***************************************************************************)
EXTENDS Integers, Sequences, FiniteSets, TLC

VARIABLES
    questions,           \* QuestionBank.questions: the loaded bank
    pc,                  \* where the caller of the bank is: idle / selected / matched
    knowledge_points,    \* argument of the running bank call
    choice_count,        \* argument of get_random_questions_by_knowledge_points
    calculation_count,   \* argument of get_random_questions_by_knowledge_points
    selected_questions,  \* list returned by get_random_questions_by_knowledge_points
    matching_questions,  \* list returned by get_questions_by_knowledge_points
    practice,            \* Practice returned by create_practice_by_knowledge_points
    practice_dict,       \* dict returned by practice_to_dict
    grading_results,     \* the session's grading_results list
    phase,               \* grading / marked / reported / analyzed
    marks,               \* per result, the marker's verdict (True: a tick is drawn)
    total_correct,       \* total_correct of the grading report
    error_analysis,      \* value returned by analyze_error_knowledge_points
    total_errors,        \* total_errors of the analysis report
    knowledge_point_errors,  \* working dict of analyze_error_knowledge_points
    step,                \* where the handling of one student image stands
    student_answer,      \* the parsed student answer, with its sections
    question_areas,      \* list returned by detect_question_areas
    image_size,          \* (image_width, image_height) the positions are asked for
    question_positions,  \* list returned by get_question_positions_for_grading
    student_grading_results,  \* the student's results handed to the marker
    matched_pairs,       \* (position, grading result) pairs the marker draws
    conversion,          \* arguments and result of convert_coords_to_original
    ai_call,             \* the last function that called the AI service, and how
    returned,            \* what that function returned
    dataset,             \* the parsed JSON of questions.json
    current_session,     \* MathHelperApp.current_session: session_path and data
    session_files,       \* per session directory, the session_data.json in it
    app_call,            \* the last handler of the interface, who called it, its message
    shown,               \* per teacher, the session and practice their browser shows
    marking_calls        \* the calls of the marker made by process_student_images

bankVars == <<questions, pc, knowledge_points, choice_count, calculation_count,
              selected_questions, matching_questions, practice, practice_dict>>

gradingVars == <<grading_results, phase, marks, total_correct, error_analysis,
                 total_errors, knowledge_point_errors>>

positionVars == <<step, student_answer, question_areas, image_size,
                  question_positions, student_grading_results, matched_pairs,
                  conversion>>

aiVars == <<ai_call, returned>>

loadVars == <<dataset>>

sessionVars == <<current_session, session_files, app_call, shown, marking_calls>>

vars == <<questions, pc, knowledge_points, choice_count, calculation_count,
          selected_questions, matching_questions, practice, practice_dict,
          grading_results, phase, marks, total_correct, error_analysis,
          total_errors, knowledge_point_errors,
          step, student_answer, question_areas, image_size,
          question_positions, student_grading_results, matched_pairs,
          conversion, ai_call, returned, dataset,
          current_session, session_files, app_call, shown, marking_calls>>

----------------------------------------------------------------------------
(* Bounds of the model *)

\* largest number of questions in a bank
MaxBank == 3

\* largest choice_count / calculation_count a caller asks for
MaxCount == 3

\* longest grading_results list when every result shape is graded
MaxGraded == 2

\* longest grading_results list when the ranking of outlines is explored
MaxRanked == 3

\* longest grading_results list when the error examples are explored
MaxExplained == 4

\* longest grading_results list when the analysis is called repeatedly
MaxRepeated == 3

\* largest choice_count / calculation_count a practice is created with
MaxPracticeCount == 2

\* largest number of areas the detector reports on one image
MaxAreas == 3

\* largest coordinate of a box handed to convert_coords_to_original
MaxCoord == 3

\* largest width / height of an image handed to convert_coords_to_original
MaxSize == 2

\* longest grading_results list when the judge service may fail
MaxJudged == 2

\* largest number of entries in the "questions" list of questions.json
MaxDataset == 2

\* largest number of characters in the text of a solution step
MaxStep == 3

\* largest number of session directories create_session makes
MaxSessions == 2

\* largest number of images handed to process_student_images
MaxImages == 2

----------------------------------------------------------------------------
(* Generic helpers for Python lists *)

Min(a, b) == IF a < b THEN a ELSE b

\* the absent value None
None == <<>>

\* dict.get(k, default)
Get(d, k, default) == IF k \in DOMAIN d THEN d[k] ELSE default

\* x in list
Contains(s, x) == \E i \in 1..Len(s) : s[i] = x

\* random.sample(population, k): every list of k entries taken from k distinct
\* positions of population, in any order; it raises ValueError (no list is
\* returned) when k is negative or larger than the population
Samples(population, k) ==
    IF k \in 0..Len(population)
    THEN {[i \in 1..k |-> population[f[i]]] :
            f \in {g \in [1..k -> 1..Len(population)] :
                      \A i, j \in 1..k : i # j => g[i] # g[j]}}
    ELSE {}

----------------------------------------------------------------------------
(* The question bank: src/src/question/model.py, src/src/question/bank.py *)

QuestionTypes == {"choice", "calculation"}

\* a knowledge-point name that is no question's outline
UnknownName == "X"

KnowledgePoint(o) == [outline |-> o, detail |-> ""]

\* knowledge_points lists a question of the bank may carry
KnowledgePointLists ==
    {<<>>, <<KnowledgePoint("A")>>, <<KnowledgePoint("B"), KnowledgePoint("A")>>}

\* knowledge-point name lists a caller may pass
NameLists == {<<>>, <<"B">>, <<UnknownName, "B", "A">>}

\* a Question whose choices and solution steps are left out
Question(i, t, kps) ==
    [id |-> i, type |-> t, question |-> "q", knowledge_points |-> kps,
     choices |-> None, solution_steps |-> None]

\* banks as load_questions builds them: one Question per dataset entry, in
\* dataset order, with unique ids
Banks ==
    UNION {
        {[i \in 1..n |-> Question(i, ty[i], kp[i])] :
            ty \in [1..n -> QuestionTypes], kp \in [1..n -> KnowledgePointLists]}
        : n \in 0..MaxBank}

\* [q for q in qs if q.type == t]
OfType(qs, t) == SelectSeq(qs, LAMBDA q : q.type = t)

\* any(kp.outline in knowledge_points for kp in q.knowledge_points)
HasMatchingOutline(q, names) ==
    \E k \in 1..Len(q.knowledge_points) :
        Contains(names, q.knowledge_points[k].outline)

\* the inner loop of get_questions_by_knowledge_points without its break:
\* q is appended once per matching knowledge point
RECURSIVE AppendPerMatch(_, _, _, _)
AppendPerMatch(acc, q, names, k) ==
    IF k > Len(q.knowledge_points) THEN acc
    ELSE AppendPerMatch(
            IF Contains(names, q.knowledge_points[k].outline)
            THEN Append(acc, q) ELSE acc,
            q, names, k + 1)

MatchQuestion_NoBreak(acc, q, names) == AppendPerMatch(acc, q, names, 1)

\* the inner loop of get_questions_by_knowledge_points: q is appended at its
\* first matching knowledge point and the loop breaks
MatchQuestion(acc, q, names) ==
    IF HasMatchingOutline(q, names) THEN Append(acc, q) ELSE acc

RECURSIVE MatchFrom(_, _, _)
MatchFrom(acc, qs, names) ==
    IF qs = <<>> THEN acc
    ELSE MatchFrom(MatchQuestion(acc, Head(qs), names), Tail(qs), names)

GetQuestionsByKnowledgePoints(bank, names) == MatchFrom(<<>>, bank, names)

\* min(count, len(pool)): the size of a draw
SampleSize(count, pool) == Min(count, Len(pool))

\* matching questions of one type, the pool of the first draw
MatchingOfType_Any(bank, names, t) == OfType(bank, t)

MatchingOfType(bank, names, t) ==
    OfType(GetQuestionsByKnowledgePoints(bank, names), t)

\* remaining_choice_count = choice_count - len(selected_questions)
RemainingChoiceCount_None(count, selected) == 0

RemainingChoiceCount(count, selected) == count - Len(selected)

\* remaining_calculation_count =
\*     calculation_count - len([q for q in selected_questions if q.type == "calculation"])
RemainingCalculationCount_NoSubtract(count, selected) == count

RemainingCalculationCount(count, selected) ==
    count - Len(OfType(selected, "calculation"))

\* [q for q in all_of_type if q not in selected_questions]
Available_NoExclude(pool, selected) == pool

Available(pool, selected) == SelectSeq(pool, LAMBDA q : ~Contains(selected, q))

\* min(remaining_count, len(available)) one short: the backfill stops before
\* the need is met
BackfillSize_OneShort(remaining, available) ==
    Min(remaining - 1, Len(available))

\* min(remaining_count, len(available)): the size of a backfill draw
BackfillSize(remaining, available) == Min(remaining, Len(available))

\* the draws a guarded random.sample can return; nothing is drawn when the
\* guard is false
Draws(guard, pool, k) == IF guard THEN Samples(pool, k) ELSE {<<>>}

\* error_analysis before any analysis ran
NoAnalysis == [error_knowledge_points |-> <<>>, top_error_points |-> <<>>]

\* every list get_random_questions_by_knowledge_points(names, cc, calc) may
\* return on the bank: the four draws of CallGetRandomQuestions, collected
RandomSelections(bank, names, cc, calc) ==
    LET matching_choice == MatchingOfType(bank, names, "choice")
        matching_calculation == MatchingOfType(bank, names, "calculation")
        all_choice == OfType(bank, "choice")
        all_calculation == OfType(bank, "calculation")
        WithCalculations(sel2) ==
            UNION {
                LET sel3 == sel2 \o selected_calculations
                    remaining_calculation == RemainingCalculationCount(calc, sel3)
                    available_calculations == Available(all_calculation, sel3)
                IN {sel3 \o additional_calculations :
                       additional_calculations \in
                           Draws(remaining_calculation > 0
                                    /\ available_calculations # <<>>,
                                 available_calculations,
                                 BackfillSize(remaining_calculation,
                                              available_calculations))}
                : selected_calculations \in
                      Draws(matching_calculation # <<>>, matching_calculation,
                            SampleSize(calc, matching_calculation))}
    IN UNION {
           LET remaining_choice == RemainingChoiceCount(cc, sel1)
               available_choices == Available(all_choice, sel1)
           IN UNION {WithCalculations(sel1 \o additional_choices) :
                        additional_choices \in
                            Draws(remaining_choice > 0 /\ available_choices # <<>>,
                                  available_choices,
                                  BackfillSize(remaining_choice, available_choices))}
           : sel1 \in Draws(matching_choice # <<>>, matching_choice,
                            SampleSize(cc, matching_choice))}

----------------------------------------------------------------------------
(* Loading the bank: QuestionBank.__init__, load_questions, _parse_question *)

\* JSON values of the dataset, tagged with their JSON type so that str() and
\* isinstance() can tell them apart
JsonNumber(n) == [int |-> n]

JsonString(t) == [str |-> t]

JsonObject(d) == [dict |-> d]

\* str(value)
Str(value) == IF "int" \in DOMAIN value THEN ToString(value.int) ELSE value.str

\* one entry of a "choices" list
RawChoice(i, c) == [id |-> i, content |-> "c", is_correct |-> c]

\* "choices" lists of the dataset entries: a lawful one, none marked correct,
\* a single choice, a repeated id, two marked correct, an empty list, and a
\* choice without its is_correct key
RawChoiceLists ==
    {<<RawChoice("A", TRUE), RawChoice("B", FALSE)>>,
     <<RawChoice("A", FALSE), RawChoice("B", FALSE)>>,
     <<RawChoice("A", TRUE)>>,
     <<RawChoice("A", TRUE), RawChoice("A", FALSE)>>,
     <<RawChoice("A", TRUE), RawChoice("B", TRUE)>>,
     <<>>,
     <<RawChoice("A", TRUE), [id |-> "B", content |-> "c"]>>}

\* ids of the dataset entries, a number or a string
RawIds == {JsonNumber(1), JsonString("1"), JsonString("2")}

\* "knowledge_points" lists of the dataset entries: plain names, objects, and
\* an entry that is neither
RawKnowledgePointLists ==
    {<<JsonString("A")>>,
     <<JsonObject([outline |-> "B"]), JsonNumber(7), JsonString("A")>>}

\* entries of the dataset: choice questions over every choices list,
\* calculation questions with and without steps, an entry without its
\* "question" key and a choice entry without "choices"
RawQuestions ==
    {[id |-> i, type |-> "choice", question |-> "q", knowledge_points |-> kps,
      choices |-> cs] :
        i \in RawIds, kps \in RawKnowledgePointLists, cs \in RawChoiceLists}
    \cup {[id |-> i, type |-> "calculation", question |-> "q",
           solution_steps |-> <<[step |-> "x = 1"]>>] : i \in RawIds}
    \cup {[id |-> i, type |-> "calculation", question |-> "q",
           knowledge_points |-> <<JsonString("A")>>] : i \in RawIds}
    \cup {[id |-> i, type |-> "choice", question |-> "q"] : i \in RawIds}
    \cup {[id |-> JsonNumber(1), type |-> "choice"]}

\* the parsed questions.json: an object with a "questions" list, or without
Datasets ==
    {[questions |-> qs] :
        qs \in UNION {[1..n -> RawQuestions] : n \in 0..MaxDataset}}
    \cup {[version |-> 1]}

\* no dataset is being loaded
NoDataset == [questions |-> <<>>]

\* the knowledge_points loop of _parse_question: a string gives a point with
\* an empty detail, an object gives its outline and detail, anything else is
\* skipped
RECURSIVE ParseKnowledgePoints(_)
ParseKnowledgePoints(raw) ==
    IF raw = <<>> THEN <<>>
    ELSE LET kp_data == Head(raw)
             parsed ==
                 IF "str" \in DOMAIN kp_data
                 THEN <<[outline |-> kp_data.str, detail |-> ""]>>
                 ELSE IF "dict" \in DOMAIN kp_data
                      THEN <<[outline |-> Get(kp_data.dict, "outline", ""),
                              detail |-> Get(kp_data.dict, "detail", "")]>>
                      ELSE <<>>
         IN parsed \o ParseKnowledgePoints(Tail(raw))

\* Choice(id=choice_data["id"], content=choice_data["content"],
\*        is_correct=choice_data["is_correct"],
\*        explanation=choice_data.get("explanation", ""))
ParseChoice(choice_data) ==
    [id |-> choice_data.id, content |-> choice_data.content,
     is_correct |-> choice_data.is_correct,
     explanation |-> Get(choice_data, "explanation", "")]

\* choices of _parse_question: None unless q_data.get("choices") is truthy
ParseChoices(q_data) ==
    IF Get(q_data, "choices", <<>>) = <<>> THEN None
    ELSE [i \in 1..Len(q_data.choices) |-> ParseChoice(q_data.choices[i])]

\* solution_steps of _parse_question
ParseSolutionSteps(q_data) ==
    IF Get(q_data, "solution_steps", <<>>) = <<>> THEN None
    ELSE [i \in 1..Len(q_data.solution_steps) |->
             [step |-> q_data.solution_steps[i].step]]

\* _parse_question raises KeyError: a subscripted key is missing
ParseQuestionRaises(q_data) ==
    \/ \E k \in {"id", "type", "question"} : k \notin DOMAIN q_data
    \/ \E i \in 1..Len(Get(q_data, "choices", <<>>)) :
          \E k \in {"id", "content", "is_correct"} :
              k \notin DOMAIN q_data.choices[i]
    \/ \E i \in 1..Len(Get(q_data, "solution_steps", <<>>)) :
          "step" \notin DOMAIN q_data.solution_steps[i]

\* _parse_question when it returns
ParseQuestion(q_data) ==
    [id |-> Str(q_data.id), type |-> q_data.type, question |-> q_data.question,
     knowledge_points |-> ParseKnowledgePoints(Get(q_data, "knowledge_points", <<>>)),
     choices |-> ParseChoices(q_data),
     solution_steps |-> ParseSolutionSteps(q_data)]

\* load_questions raises: some entry of data.get("questions", []) does
LoadQuestionsRaises(data) ==
    LET entries == Get(data, "questions", <<>>)
    IN \E i \in 1..Len(entries) : ParseQuestionRaises(entries[i])

\* load_questions when it returns: one Question per entry, in dataset order
LoadQuestions(data) ==
    LET entries == Get(data, "questions", <<>>)
    IN [i \in 1..Len(entries) |-> ParseQuestion(entries[i])]

----------------------------------------------------------------------------
(* Practices: src/src/practice/practice.py *)

\* banks a PracticeManager works on
PracticeBanks ==
    UNION {
        {[i \in 1..n |-> Question(i, ty[i], kp[i])] :
            ty \in [1..n -> QuestionTypes],
            kp \in [1..n -> {<<KnowledgePoint("A")>>, <<KnowledgePoint("B")>>}]}
        : n \in 0..MaxBank}

\* knowledge-point name lists a practice is created for
PracticeNameLists == {<<"A">>, <<UnknownName>>}

\* [q.id for q in qs]
QuestionIds(qs) == [i \in 1..Len(qs) |-> qs[i].id]

PracticeSection(name, type, question_ids) ==
    [name |-> name, type |-> type, question_ids |-> question_ids]

Practice(title, practice_id, sections) ==
    [title |-> title, practice_id |-> practice_id, sections |-> sections]

\* no practice was created / expanded yet
NoPractice == Practice("", "", <<>>)

\* name of the choice section (U+4E00 U+3001 U+9009 U+62E9 U+9898), romanised
ChoiceSectionName == "yi, xuanzeti"

\* name of the calculation section (U+4E8C U+3001 U+8BA1 U+7B97 U+9898), romanised
CalculationSectionName == "er, jisuanti"

\* the calculation section is filled from the whole selection
CalculationQuestions_All(selected) == selected

\* [q for q in selected_questions if q.type == "calculation"]
CalculationQuestions(selected) == OfType(selected, "calculation")

\* the choice section is appended whether or not it has questions
ChoiceSection_Always(choice_questions) ==
    <<PracticeSection(ChoiceSectionName, "choice", QuestionIds(choice_questions))>>

\* if choice_questions: sections.append(choice_section)
ChoiceSection(choice_questions) ==
    IF choice_questions # <<>>
    THEN <<PracticeSection(ChoiceSectionName, "choice", QuestionIds(choice_questions))>>
    ELSE <<>>

\* if calculation_questions: sections.append(calculation_section)
CalculationSection(calculation_questions) ==
    IF calculation_questions # <<>>
    THEN <<PracticeSection(CalculationSectionName, "calculation",
                           QuestionIds(calculation_questions))>>
    ELSE <<>>

\* the sections create_practice_by_knowledge_points builds from the selection
Sections(selected) ==
    ChoiceSection(OfType(selected, "choice"))
        \o CalculationSection(CalculationQuestions(selected))

\* QuestionBank.get_question: the first question of that id, or None (<<>>)
GetQuestion(bank, id) ==
    LET found == SelectSeq(bank, LAMBDA q : q.id = id)
    IN IF found = <<>> THEN <<>> ELSE <<Head(found)>>

\* texts are sequences of characters; the characters of the step texts: two
\* digits, a sign, the decimal point, the equals sign, a blank and a letter
Characters == {"1", "2", "-", ".", "=", " ", "x"}

\* \d
IsDigit(c) == c \in {"0", "1", "2", "3", "4", "5", "6", "7", "8", "9"}

\* [+-]
IsSign(c) == c \in {"+", "-"}

\* \s
IsSpace(c) == c \in {" ", "\t", "\n"}

\* where a greedy \d* run starting at i stops: the first index from i on that
\* holds no digit
RECURSIVE DigitsEnd(_, _)
DigitsEnd(text, i) ==
    IF i <= Len(text) /\ IsDigit(text[i]) THEN DigitsEnd(text, i + 1) ELSE i

\* where a greedy \s* run starting at i stops
RECURSIVE SpacesEnd(_, _)
SpacesEnd(text, i) ==
    IF i <= Len(text) /\ IsSpace(text[i]) THEN SpacesEnd(text, i + 1) ELSE i

\* the pattern =?\s*([+-]?\d+(?:\.\d+)?) tried at index p: the span
\* <<first, last + 1>> of group 1, or <<>> when it does not match there.
\* Every quantifier is greedy; giving back the '=', a blank or the sign never
\* helps, as the next item then meets that very character.
MatchAt(text, p) ==
    LET after_equals == IF p <= Len(text) /\ text[p] = "=" THEN p + 1 ELSE p
        group_start == SpacesEnd(text, after_equals)
        after_sign == IF group_start <= Len(text) /\ IsSign(text[group_start])
                      THEN group_start + 1 ELSE group_start
        integer_end == DigitsEnd(text, after_sign)
        fraction_end == IF integer_end <= Len(text) /\ text[integer_end] = "."
                        THEN DigitsEnd(text, integer_end + 1) ELSE integer_end
    IN IF integer_end = after_sign THEN <<>>
       ELSE IF fraction_end > integer_end + 1 THEN <<group_start, fraction_end>>
            ELSE <<group_start, integer_end>>

\* re.search(pattern, text): the match at the first index where the pattern
\* matches, None (<<>>) when it matches nowhere
RECURSIVE SearchFrom(_, _)
SearchFrom(text, p) ==
    IF p > Len(text) THEN <<>>
    ELSE IF MatchAt(text, p) # <<>> THEN MatchAt(text, p)
         ELSE SearchFrom(text, p + 1)

\* answer_match.group(1) if answer_match else ""
ExtractAnswer(last_step) ==
    LET answer_match == SearchFrom(last_step, 1)
    IN IF answer_match # <<>>
       THEN SubSeq(last_step, answer_match[1], answer_match[2] - 1)
       ELSE <<>>

\* next((c for c in question.choices if c.is_correct), None), then
\* correct_choice.id if correct_choice else ""
CorrectChoiceId(choices) ==
    LET correct == SelectSeq(choices, LAMBDA c : c.is_correct)
    IN IF correct # <<>> THEN Head(correct).id ELSE ""

\* the keys of question_dict set when question.choices is truthy
ChoiceKeys(question) ==
    IF question.choices # None
    THEN [choices |-> question.choices, answer |-> CorrectChoiceId(question.choices)]
    ELSE <<>>

\* the keys of question_dict set when question.solution_steps is truthy: the
\* steps, and for a calculation question the answer taken from the last step
StepKeys(question) ==
    IF question.solution_steps # None
    THEN IF question.type = "calculation"
         THEN [solution_steps |-> question.solution_steps,
               answer |-> ExtractAnswer(
                   question.solution_steps[Len(question.solution_steps)].step)]
         ELSE [solution_steps |-> question.solution_steps]
    ELSE <<>>

\* question_dict of practice_to_dict; a key set twice keeps its later value
QuestionDict(question, type) ==
    StepKeys(question) @@ ChoiceKeys(question)
        @@ [id |-> question.id, type |-> question.type,
            metadata |-> [category |-> type],
            question |-> question.question,
            knowledge_points |-> question.knowledge_points]

\* the questions are taken in the order of the bank
ExpandQuestions_BankOrder(bank, type, question_ids) ==
    LET kept == SelectSeq(bank, LAMBDA q : Contains(question_ids, q.id))
    IN [i \in 1..Len(kept) |-> QuestionDict(kept[i], type)]

\* for question_id in section.question_ids: ... questions_data.append(...)
RECURSIVE ExpandQuestions(_, _, _)
ExpandQuestions(bank, type, question_ids) ==
    IF question_ids = <<>> THEN <<>>
    ELSE LET question == GetQuestion(bank, Head(question_ids))
             rest == ExpandQuestions(bank, type, Tail(question_ids))
         IN IF question # <<>>
            THEN <<QuestionDict(question[1], type)>> \o rest
            ELSE rest

\* PracticeManager.practice_to_dict
PracticeToDict(bank, p) ==
    [title |-> p.title,
     practice_id |-> p.practice_id,
     sections |-> [i \in 1..Len(p.sections) |->
                      [name |-> p.sections[i].name,
                       type |-> p.sections[i].type,
                       question_ids |-> p.sections[i].question_ids,
                       questions |-> ExpandQuestions(bank, p.sections[i].type,
                                                     p.sections[i].question_ids)]]]

----------------------------------------------------------------------------
(* Actions of the bank *)

\* QuestionBank.get_questions_by_knowledge_points(names)
CallGetQuestionsByKnowledgePoints(names) ==
    /\ pc = "idle"
    /\ pc' = "matched"
    /\ knowledge_points' = names
    /\ matching_questions' = GetQuestionsByKnowledgePoints(questions, names)
    /\ UNCHANGED <<questions, choice_count, calculation_count, selected_questions,
                   practice, practice_dict>>
    /\ UNCHANGED gradingVars
    /\ UNCHANGED positionVars
    /\ UNCHANGED aiVars
    /\ UNCHANGED loadVars
    /\ UNCHANGED sessionVars

\* QuestionBank.get_random_questions_by_knowledge_points(names, cc, calc)
CallGetRandomQuestions(names, cc, calc) ==
    /\ pc = "idle"
    /\ LET matching_choice == MatchingOfType(questions, names, "choice")
           matching_calculation == MatchingOfType(questions, names, "calculation")
           all_choice == OfType(questions, "choice")
           all_calculation == OfType(questions, "calculation")
       IN \E selected_choices \in
                Draws(matching_choice # <<>>, matching_choice,
                      SampleSize(cc, matching_choice)) :
          LET sel1 == selected_choices
              remaining_choice == RemainingChoiceCount(cc, sel1)
              available_choices == Available(all_choice, sel1)
          IN \E additional_choices \in
                   Draws(remaining_choice > 0 /\ available_choices # <<>>,
                         available_choices,
                         BackfillSize(remaining_choice, available_choices)) :
             LET sel2 == sel1 \o additional_choices
             IN \E selected_calculations \in
                      Draws(matching_calculation # <<>>, matching_calculation,
                            SampleSize(calc, matching_calculation)) :
                LET sel3 == sel2 \o selected_calculations
                    remaining_calculation == RemainingCalculationCount(calc, sel3)
                    available_calculations == Available(all_calculation, sel3)
                IN \E additional_calculations \in
                         Draws(remaining_calculation > 0
                                  /\ available_calculations # <<>>,
                               available_calculations,
                               BackfillSize(remaining_calculation,
                                            available_calculations)) :
                      selected_questions' = sel3 \o additional_calculations
    /\ pc' = "selected"
    /\ knowledge_points' = names
    /\ choice_count' = cc
    /\ calculation_count' = calc
    /\ UNCHANGED <<questions, matching_questions, practice, practice_dict>>
    /\ UNCHANGED gradingVars
    /\ UNCHANGED positionVars
    /\ UNCHANGED aiVars
    /\ UNCHANGED loadVars
    /\ UNCHANGED sessionVars

\* PracticeManager.create_practice_by_knowledge_points(title, names, cc, calc)
CreatePracticeByKnowledgePoints(title, names, cc, calc) ==
    /\ pc = "idle"
    /\ \E selected \in RandomSelections(questions, names, cc, calc) :
          /\ selected_questions' = selected
          /\ practice' = Practice(title, "uuid", Sections(selected))
    /\ pc' = "created"
    /\ knowledge_points' = names
    /\ choice_count' = cc
    /\ calculation_count' = calc
    /\ UNCHANGED <<questions, matching_questions, practice_dict>>
    /\ UNCHANGED gradingVars
    /\ UNCHANGED positionVars
    /\ UNCHANGED aiVars
    /\ UNCHANGED loadVars
    /\ UNCHANGED sessionVars

\* PracticeManager.practice_to_dict(practice)
CallPracticeToDict ==
    /\ pc = "created"
    /\ pc' = "expanded"
    /\ practice_dict' = PracticeToDict(questions, practice)
    /\ UNCHANGED <<questions, knowledge_points, choice_count, calculation_count,
                   selected_questions, matching_questions, practice>>
    /\ UNCHANGED gradingVars
    /\ UNCHANGED positionVars
    /\ UNCHANGED aiVars
    /\ UNCHANGED loadVars
    /\ UNCHANGED sessionVars

\* the caller takes the returned list; the bank itself is left as loaded
ReturnToCaller ==
    /\ pc \in {"selected", "matched", "created", "expanded"}
    /\ pc' = "idle"
    /\ knowledge_points' = <<>>
    /\ choice_count' = 0
    /\ calculation_count' = 0
    /\ selected_questions' = <<>>
    /\ matching_questions' = <<>>
    /\ practice' = NoPractice
    /\ practice_dict' = NoPractice
    /\ UNCHANGED questions
    /\ UNCHANGED gradingVars
    /\ UNCHANGED positionVars
    /\ UNCHANGED aiVars
    /\ UNCHANGED loadVars
    /\ UNCHANGED sessionVars

\* a session in which nothing was graded yet
NoGrading ==
    /\ grading_results = <<>>
    /\ phase = "grading"
    /\ marks = <<>>
    /\ total_correct = 0
    /\ error_analysis = NoAnalysis
    /\ total_errors = 0
    /\ knowledge_point_errors = <<>>

\* no student image is being handled
NoPositions ==
    /\ step = "idle"
    /\ student_answer = [student_id |-> "", sections |-> <<>>]
    /\ question_areas = <<>>
    /\ image_size = <<>>
    /\ question_positions = <<>>
    /\ student_grading_results = <<>>
    /\ matched_pairs = <<>>
    /\ conversion = [bbox |-> <<>>, original_size |-> <<>>,
                     resized_size |-> <<>>, result |-> <<>>]
    /\ ai_call = [function |-> "", status |-> "", text |-> <<>>]
    /\ returned = <<>>

\* session_path None: no directory; only its truth value is ever tested
NoPath == ""

\* datetime.datetime.now().isoformat(): the clock is not modelled, every
\* time stamp is this one value
Now == "now"

\* CompleteSession(): no directory yet and the initial data
NewCompleteSession ==
    [session_path |-> NoPath,
     data |-> [prompt |-> "", knowledge_points |-> <<>>, practice_data |-> None,
               student_answers |-> <<>>, grading_results |-> <<>>,
               error_analysis |-> None, images |-> <<>>,
               created_at |-> Now, updated_at |-> Now]]

\* the teachers whose browsers are connected to the one interface
Teachers == {"t1", "t2"}

\* no handler was called yet
NoCall == [teacher |-> "", handler |-> "", message |-> ""]

\* a browser that shows no session and no practice
NothingShown == [session_path |-> NoPath, practice_data |-> None]

\* the application as it starts: a fresh current session, no session
\* directory on disk, no dataset being loaded
NoSession ==
    /\ dataset = NoDataset
    /\ current_session = NewCompleteSession
    /\ session_files = <<>>
    /\ app_call = NoCall
    /\ shown = [t \in Teachers |-> NothingShown]
    /\ marking_calls = <<>>

\* no bank call is running
BankIdle ==
    /\ pc = "idle"
    /\ knowledge_points = <<>>
    /\ choice_count = 0
    /\ calculation_count = 0
    /\ selected_questions = <<>>
    /\ matching_questions = <<>>
    /\ practice = NoPractice
    /\ practice_dict = NoPractice

InitBank ==
    /\ questions \in Banks
    /\ BankIdle
    /\ NoGrading
    /\ NoPositions
    /\ NoSession

NextBank ==
    \/ \E names \in NameLists : CallGetQuestionsByKnowledgePoints(names)
    \/ \E names \in NameLists, cc \in 0..MaxCount, calc \in 0..MaxCount :
          CallGetRandomQuestions(names, cc, calc)
    \/ ReturnToCaller

SpecBank == InitBank /\ [][NextBank]_vars

InitPractice ==
    /\ questions \in PracticeBanks
    /\ BankIdle
    /\ NoGrading
    /\ NoPositions
    /\ NoSession

NextPractice ==
    \/ \E names \in PracticeNameLists,
          cc \in 0..MaxPracticeCount, calc \in 0..MaxPracticeCount :
          CreatePracticeByKnowledgePoints("t", names, cc, calc)
    \/ CallPracticeToDict
    \/ ReturnToCaller

\* practices are created from the bank and expanded to dicts
SpecPractice == InitPractice /\ [][NextPractice]_vars

\* the texts of a last solution step
StepTexts == UNION {[1..n -> Characters] : n \in 0..MaxStep}

\* a choice question with its choices, the second one correct
SolvedChoiceQuestion ==
    [id |-> "c1", type |-> "choice", question |-> "q",
     knowledge_points |-> <<KnowledgePoint("A")>>,
     choices |-> <<[id |-> "A", content |-> "c", is_correct |-> FALSE,
                    explanation |-> ""],
                   [id |-> "B", content |-> "c", is_correct |-> TRUE,
                    explanation |-> ""]>>,
     solution_steps |-> None]

\* a calculation question with its solution steps
SolvedCalculationQuestion(steps) ==
    [id |-> "k1", type |-> "calculation", question |-> "q",
     knowledge_points |-> <<KnowledgePoint("A")>>,
     choices |-> None, solution_steps |-> steps]

\* banks of a solved choice question and a solved calculation question whose
\* last step is any text, alone or after an earlier step
AnswerBanks ==
    {<<SolvedChoiceQuestion, SolvedCalculationQuestion(<<[step |-> t]>>)>> :
        t \in StepTexts}
    \cup {<<SolvedChoiceQuestion,
            SolvedCalculationQuestion(<<[step |-> <<"x", "=", "2">>], [step |-> t]>>)>> :
            t \in StepTexts}

InitAnswers ==
    /\ questions \in AnswerBanks
    /\ BankIdle
    /\ NoGrading
    /\ NoPositions
    /\ NoSession

NextAnswers ==
    \/ CreatePracticeByKnowledgePoints("t", <<"A">>, 1, 1)
    \/ CallPracticeToDict
    \/ ReturnToCaller

\* a practice of solved questions is created and expanded to a dict
SpecAnswers == InitAnswers /\ [][NextAnswers]_vars

\* QuestionBank(): self.questions = self.load_questions(); when the loader
\* raises, the constructor does and no bank exists
NewQuestionBank ==
    /\ pc = "constructing"
    /\ IF LoadQuestionsRaises(dataset)
       THEN pc' = "raised" /\ UNCHANGED questions
       ELSE pc' = "idle" /\ questions' = LoadQuestions(dataset)
    /\ UNCHANGED <<knowledge_points, choice_count, calculation_count,
                   selected_questions, matching_questions, practice, practice_dict>>
    /\ UNCHANGED gradingVars
    /\ UNCHANGED positionVars
    /\ UNCHANGED aiVars
    /\ UNCHANGED loadVars
    /\ UNCHANGED sessionVars

InitLoad ==
    /\ questions = <<>>
    /\ pc = "constructing"
    /\ knowledge_points = <<>>
    /\ choice_count = 0
    /\ calculation_count = 0
    /\ selected_questions = <<>>
    /\ matching_questions = <<>>
    /\ practice = NoPractice
    /\ practice_dict = NoPractice
    /\ NoGrading
    /\ NoPositions
    /\ current_session = NewCompleteSession
    /\ session_files = <<>>
    /\ app_call = NoCall
    /\ shown = [t \in Teachers |-> NothingShown]
    /\ marking_calls = <<>>
    /\ dataset \in Datasets

NextLoad == NewQuestionBank

\* every dataset is loaded into a bank, or refused
SpecLoad == InitLoad /\ [][NextLoad]_vars

----------------------------------------------------------------------------
(* Grading results and the correctness predicates:                         *)
(* src/src/image_grading.py, src/src/main_layout.py, src/src/ai.py         *)

\* a dict with key k set to the JSON boolean o, or without the key
WithFlag(d, k, o) == IF o = "absent" THEN d ELSE d @@ (k :> (o = "true"))

Flags == {"absent", "true", "false"}

\* a grading result as process_student_images stores it: the grader's dict
\* (grade_choice_question, or the judge's JSON of grade_calculation_question,
\* which may lack any key) updated with question_type and knowledge_points
GradingResult(t, ic, oc, kps, e) ==
    WithFlag(
        WithFlag([question_type |-> t, knowledge_points |-> kps, explanation |-> e],
                 "is_correct", ic),
        "overall_correct", oc)

ResultKnowledgePoint(o) == [outline |-> o, detail |-> ""]

\* every shape of the correctness fields, one knowledge point
VerdictResults ==
    {GradingResult(t, ic, oc, <<ResultKnowledgePoint("A")>>, "e1") :
        t \in {"choice", "calculation", "fill", ""}, ic \in Flags, oc \in Flags}

\* a calculation result whose judge JSON carries no overall_correct
UnjudgedCalculation(kps, e) == GradingResult("calculation", "true", "absent", kps, e)

\* knowledge_points lists of the results whose ranking is explored
RankedKnowledgePointLists ==
    {<<>>,
     <<ResultKnowledgePoint("A")>>,
     <<ResultKnowledgePoint("B")>>,
     <<ResultKnowledgePoint("B"), ResultKnowledgePoint("A")>>,
     <<ResultKnowledgePoint("A"), ResultKnowledgePoint("A")>>,
     <<ResultKnowledgePoint(""), ResultKnowledgePoint("C")>>}

\* choice results, right or wrong, and unjudged calculation results, over
\* several knowledge-point lists
RankedResults ==
    {GradingResult("choice", ic, "absent", kps, "e1") :
        ic \in {"true", "false"}, kps \in RankedKnowledgePointLists}
    \cup {UnjudgedCalculation(kps, "e1") : kps \in RankedKnowledgePointLists}

Explanations == {"", "e1", "e2", "e3", "e4"}

\* wrong choice results over every explanation, a right result and an
\* unjudged calculation result
ExplainedResults ==
    {GradingResult("choice", "false", "absent", <<ResultKnowledgePoint("A")>>, e) :
        e \in Explanations}
    \cup {GradingResult("choice", "false", "absent",
                        <<ResultKnowledgePoint("B"), ResultKnowledgePoint("A")>>, e) :
            e \in {"e1", "e2"}}
    \cup {GradingResult("choice", "true", "absent", <<ResultKnowledgePoint("A")>>, "e4"),
          UnjudgedCalculation(<<ResultKnowledgePoint("A")>>, "e3")}

\* results graded between repeated calls of the analysis
RepeatedResults ==
    {GradingResult("choice", "false", "absent", <<ResultKnowledgePoint("A")>>, "e1"),
     GradingResult("choice", "false", "absent",
                   <<ResultKnowledgePoint("B"), ResultKnowledgePoint("A")>>, "e2"),
     GradingResult("choice", "true", "absent", <<ResultKnowledgePoint("A")>>, "e1"),
     UnjudgedCalculation(<<ResultKnowledgePoint("B")>>, "e1")}

\* ImageGradingMarker._is_question_correct with the calculation branch
\* falling through to is_correct
MarkerIsQuestionCorrect_FallThrough(result) ==
    LET question_type == Get(result, "question_type", "")
    IN IF question_type = "choice" THEN Get(result, "is_correct", FALSE)
       ELSE IF question_type = "calculation"
            THEN Get(result, "overall_correct", Get(result, "is_correct", FALSE))
            ELSE Get(result, "is_correct", FALSE)

\* ImageGradingMarker._is_question_correct
MarkerIsQuestionCorrect(result) ==
    LET question_type == Get(result, "question_type", "")
    IN IF question_type = "choice" THEN Get(result, "is_correct", FALSE)
       ELSE IF question_type = "calculation"
            THEN Get(result, "overall_correct", FALSE)
            ELSE Get(result, "is_correct", FALSE)

\* MathHelperApp._is_question_correct
IsQuestionCorrect(result) ==
    LET question_type == Get(result, "question_type", "")
    IN IF question_type = "choice" THEN Get(result, "is_correct", FALSE)
       ELSE IF question_type = "calculation"
            THEN Get(result, "overall_correct", FALSE)
            ELSE Get(result, "is_correct", FALSE)

\* MathHelperApp._is_question_incorrect
IsQuestionIncorrect(result) ==
    LET question_type == Get(result, "question_type", "")
    IN IF question_type = "choice" THEN ~Get(result, "is_correct", TRUE)
       ELSE IF question_type = "calculation"
            THEN ~Get(result, "overall_correct", TRUE)
            ELSE ~Get(result, "is_correct", TRUE)

\* the is_incorrect flag analyze_error_knowledge_points computes inline
AnalysisIsIncorrect(result) ==
    LET question_type == Get(result, "question_type", "")
    IN IF question_type = "choice" THEN ~Get(result, "is_correct", TRUE)
       ELSE IF question_type = "calculation"
            THEN ~Get(result, "overall_correct", TRUE)
            ELSE ~Get(result, "is_correct", TRUE)

----------------------------------------------------------------------------
(* analyze_error_knowledge_points: src/src/ai.py                           *)

\* the knowledge base catalog the detail texts are looked up in
KnowledgeBaseCatalog ==
    <<[outline |-> "A", detail |-> "detail of A"],
      [outline |-> "B", detail |-> "detail of B"]>>

\* the detail of the first catalog entry with this outline, "" if none
StandardDetail(outline) ==
    LET hits == {i \in 1..Len(KnowledgeBaseCatalog) :
                    KnowledgeBaseCatalog[i].outline = outline}
    IN IF hits = {} THEN ""
       ELSE KnowledgeBaseCatalog[CHOOSE i \in hits : \A j \in hits : i <= j].detail

\* number of examples kept per outline
MaxExamples == 3

\* number of entries of top_error_points
TopCount == 2

\* error_examples with the explanation appended even when already recorded
AddExample_NoDedup(examples, explanation) ==
    IF explanation # "" THEN Append(examples, explanation) ELSE examples

\* the explanation is appended when it is non-empty and not yet recorded
AddExample(examples, explanation) ==
    IF explanation # "" /\ ~Contains(examples, explanation)
    THEN Append(examples, explanation)
    ELSE examples

\* error_count is set to 1 at every knowledge point instead of incremented
RecordError_NotSummed(errors, outline, explanation) ==
    LET keyed == IF \E i \in 1..Len(errors) : errors[i].outline = outline
                 THEN errors
                 ELSE Append(errors, [outline |-> outline, error_count |-> 0,
                                      error_examples |-> <<>>])
        at == CHOOSE i \in 1..Len(keyed) : keyed[i].outline = outline
    IN [keyed EXCEPT ![at] =
            [outline |-> outline,
             error_count |-> 1,
             error_examples |-> AddExample(keyed[at].error_examples, explanation)]]

\* knowledge_point_errors is a dict: its entries, in insertion order.
\* One knowledge point of an incorrect result is recorded under its outline.
RecordError(errors, outline, explanation) ==
    LET keyed == IF \E i \in 1..Len(errors) : errors[i].outline = outline
                 THEN errors
                 ELSE Append(errors, [outline |-> outline, error_count |-> 0,
                                      error_examples |-> <<>>])
        at == CHOOSE i \in 1..Len(keyed) : keyed[i].outline = outline
    IN [keyed EXCEPT ![at] =
            [outline |-> outline,
             error_count |-> keyed[at].error_count + 1,
             error_examples |-> AddExample(keyed[at].error_examples, explanation)]]

\* an incorrect result is also recorded under the outline "unknown"
RECURSIVE ScanKnowledgePoints_Unnamed(_, _, _)
ScanKnowledgePoints_Unnamed(errors, kps, explanation) ==
    IF kps = <<>> THEN RecordError(errors, "unknown", explanation)
    ELSE LET outline == Get(Head(kps), "outline", "")
         IN ScanKnowledgePoints_Unnamed(
                IF outline # "" THEN RecordError(errors, outline, explanation)
                ELSE errors,
                Tail(kps), explanation)

\* for kp in knowledge_points: ... if outline: ...
RECURSIVE ScanKnowledgePoints(_, _, _)
ScanKnowledgePoints(errors, kps, explanation) ==
    IF kps = <<>> THEN errors
    ELSE LET outline == Get(Head(kps), "outline", "")
         IN ScanKnowledgePoints(
                IF outline # "" THEN RecordError(errors, outline, explanation)
                ELSE errors,
                Tail(kps), explanation)

\* for result in grading_results: ... if is_incorrect: ...
RECURSIVE ScanResults(_, _)
ScanResults(errors, results) ==
    IF results = <<>> THEN errors
    ELSE LET result == Head(results)
         IN ScanResults(
                IF AnalysisIsIncorrect(result)
                THEN ScanKnowledgePoints(errors,
                                         Get(result, "knowledge_points", <<>>),
                                         Get(result, "explanation", ""))
                ELSE errors,
                Tail(results))

\* data["error_examples"] kept whole
KeepExamples_All(examples) == examples

\* data["error_examples"][:3]
KeepExamples(examples) == SubSeq(examples, 1, Min(MaxExamples, Len(examples)))

\* the entry appended to error_knowledge_points for one outline
ErrorStat(entry) ==
    [outline |-> entry.outline,
     detail |-> StandardDetail(entry.outline),
     error_count |-> entry.error_count,
     error_examples |-> KeepExamples(entry.error_examples)]

\* an entry placed before the entries of equal error_count (an unstable sort)
InsertByErrorCount_BeforeTies(sorted, x) ==
    LET before == Cardinality({i \in 1..Len(sorted) :
                                  sorted[i].error_count > x.error_count})
    IN SubSeq(sorted, 1, before) \o <<x>> \o SubSeq(sorted, before + 1, Len(sorted))

\* one step of the stable sort by error_count, reverse=True: the entry goes
\* after every entry whose error_count is not smaller
InsertByErrorCount(sorted, x) ==
    LET before == Cardinality({i \in 1..Len(sorted) :
                                  sorted[i].error_count >= x.error_count})
    IN SubSeq(sorted, 1, before) \o <<x>> \o SubSeq(sorted, before + 1, Len(sorted))

\* error_knowledge_points.sort(key=lambda x: x["error_count"], reverse=True)
RECURSIVE SortByErrorCount(_, _)
SortByErrorCount(sorted, rest) ==
    IF rest = <<>> THEN sorted
    ELSE SortByErrorCount(InsertByErrorCount(sorted, Head(rest)), Tail(rest))

\* error_knowledge_points[:3]
TopErrorPoints_Three(error_knowledge_points) ==
    SubSeq(error_knowledge_points, 1, Min(3, Len(error_knowledge_points)))

\* error_knowledge_points[:2]
TopErrorPoints(error_knowledge_points) ==
    SubSeq(error_knowledge_points, 1, Min(TopCount, Len(error_knowledge_points)))

\* the dict kept from the previous call is scanned on
FreshErrors_Kept(previous) == previous

\* knowledge_point_errors = {} at the start of every call
FreshErrors(previous) == <<>>

\* the sorted statistics and their top entries, from the scanned dict
ErrorReport(errors) ==
    IF errors = <<>> THEN NoAnalysis
    ELSE LET error_knowledge_points ==
                 SortByErrorCount(<<>>,
                     [i \in 1..Len(errors) |-> ErrorStat(errors[i])])
         IN [error_knowledge_points |-> error_knowledge_points,
             top_error_points |-> TopErrorPoints(error_knowledge_points)]

AnalyzeErrorKnowledgePoints(results) == ErrorReport(ScanResults(<<>>, results))

----------------------------------------------------------------------------
(* Actions of the grading pipeline *)

\* process_student_images appends one graded question to grading_results
GradeQuestion(result, limit) ==
    /\ phase = "grading"
    /\ Len(grading_results) < limit
    /\ grading_results' = Append(grading_results, result)
    /\ UNCHANGED <<phase, marks, total_correct, error_analysis,
                   total_errors, knowledge_point_errors>>
    /\ UNCHANGED bankVars
    /\ UNCHANGED positionVars
    /\ UNCHANGED aiVars
    /\ UNCHANGED loadVars
    /\ UNCHANGED sessionVars

\* the marker draws a tick or a cross for every result
MarkImages ==
    /\ phase = "grading"
    /\ grading_results # <<>>
    /\ phase' = "marked"
    /\ marks' = [i \in 1..Len(grading_results) |->
                    MarkerIsQuestionCorrect(grading_results[i])]
    /\ UNCHANGED <<grading_results, total_correct, error_analysis,
                   total_errors, knowledge_point_errors>>
    /\ UNCHANGED bankVars
    /\ UNCHANGED positionVars
    /\ UNCHANGED aiVars
    /\ UNCHANGED loadVars
    /\ UNCHANGED sessionVars

\* _generate_grading_report counts the correct results
GenerateGradingReport ==
    /\ phase = "grading"
    /\ grading_results # <<>>
    /\ phase' = "reported"
    /\ total_correct' = Cardinality({i \in 1..Len(grading_results) :
                                        IsQuestionCorrect(grading_results[i])})
    /\ UNCHANGED <<grading_results, marks, error_analysis,
                   total_errors, knowledge_point_errors>>
    /\ UNCHANGED bankVars
    /\ UNCHANGED positionVars
    /\ UNCHANGED aiVars
    /\ UNCHANGED loadVars
    /\ UNCHANGED sessionVars

\* analyze_errors_only: ai_processor.analyze_error_knowledge_points(
\* grading_results), then the count of the incorrect results
AnalyzeErrors ==
    /\ phase = "grading"
    /\ phase' = "analyzed"
    /\ knowledge_point_errors' =
            ScanResults(FreshErrors(knowledge_point_errors), grading_results)
    /\ error_analysis' = ErrorReport(knowledge_point_errors')
    /\ total_errors' = Cardinality({i \in 1..Len(grading_results) :
                                       IsQuestionIncorrect(grading_results[i])})
    /\ UNCHANGED <<grading_results, marks, total_correct>>
    /\ UNCHANGED bankVars
    /\ UNCHANGED positionVars
    /\ UNCHANGED aiVars
    /\ UNCHANGED loadVars
    /\ UNCHANGED sessionVars

\* the teacher goes on grading: what was displayed is dropped, the results stay
ResumeGrading ==
    /\ phase \in {"marked", "reported", "analyzed"}
    /\ phase' = "grading"
    /\ marks' = <<>>
    /\ total_correct' = 0
    /\ error_analysis' = NoAnalysis
    /\ total_errors' = 0
    /\ UNCHANGED <<grading_results, knowledge_point_errors>>
    /\ UNCHANGED bankVars
    /\ UNCHANGED positionVars
    /\ UNCHANGED aiVars
    /\ UNCHANGED loadVars
    /\ UNCHANGED sessionVars

\* process_student_images starts over: grading_results = []
RestartGrading ==
    /\ phase = "grading"
    /\ grading_results # <<>>
    /\ grading_results' = <<>>
    /\ UNCHANGED <<phase, marks, total_correct, error_analysis,
                   total_errors, knowledge_point_errors>>
    /\ UNCHANGED bankVars
    /\ UNCHANGED positionVars
    /\ UNCHANGED aiVars
    /\ UNCHANGED loadVars
    /\ UNCHANGED sessionVars

InitGrading ==
    /\ questions = <<>>
    /\ BankIdle
    /\ NoGrading
    /\ NoPositions
    /\ NoSession

NextVerdict ==
    \/ \E result \in VerdictResults : GradeQuestion(result, MaxGraded)
    \/ MarkImages
    \/ GenerateGradingReport
    \/ AnalyzeErrors
    \/ ResumeGrading

\* every shape of the correctness fields is graded, marked, reported, analysed
SpecVerdict == InitGrading /\ [][NextVerdict]_vars

NextRanking ==
    \/ \E result \in RankedResults : GradeQuestion(result, MaxRanked)
    \/ AnalyzeErrors
    \/ ResumeGrading

\* results over several outlines are graded and analysed
SpecRanking == InitGrading /\ [][NextRanking]_vars

NextExamples ==
    \/ \E result \in ExplainedResults : GradeQuestion(result, MaxExplained)
    \/ AnalyzeErrors
    \/ ResumeGrading

\* results over several explanations are graded and analysed
SpecExamples == InitGrading /\ [][NextExamples]_vars

NextRepeat ==
    \/ \E result \in RepeatedResults : GradeQuestion(result, MaxRepeated)
    \/ AnalyzeErrors
    \/ ResumeGrading
    \/ RestartGrading

\* the analysis is called again and again, on lists that grow and start over
SpecRepeat == InitGrading /\ [][NextRepeat]_vars

----------------------------------------------------------------------------
(* Question areas and positions: src/src/ai.py, src/src/image_grading.py    *)

\* int(a / b) for b > 0: the quotient cut toward zero
TruncateQuotient(a, b) == IF a >= 0 THEN a \div b ELSE -((-a) \div b)

\* int(x * scale) with scale = orig / resized
ScaleCoordinate(x, orig, resized) == TruncateQuotient(x * orig, resized)

\* AIProcessor.convert_coords_to_original
ConvertCoordsToOriginal(bbox, original_size, resized_size) ==
    IF Len(bbox) # 4 \/ Len(original_size) # 2 \/ Len(resized_size) # 2
    THEN bbox
    ELSE <<ScaleCoordinate(bbox[1], original_size[1], resized_size[1]),
           ScaleCoordinate(bbox[2], original_size[2], resized_size[2]),
           ScaleCoordinate(bbox[3], original_size[1], resized_size[1]),
           ScaleCoordinate(bbox[4], original_size[2], resized_size[2])>>

\* d[k] = v on a dict
SetKey(d, k, v) == [x \in DOMAIN d \cup {k} |-> IF x = k THEN v ELSE d[x]]

\* AIProcessor.convert_question_areas_to_original
ConvertQuestionAreasToOriginal(areas) ==
    [i \in 1..Len(areas) |->
        LET area == areas[i]
            original_size == Get(area, "original_size", <<>>)
            resized_size == Get(area, "resized_size", <<>>)
            with_bbox ==
                IF "bbox_2d" \in DOMAIN area
                THEN SetKey(area, "bbox_2d",
                            ConvertCoordsToOriginal(area.bbox_2d, original_size,
                                                    resized_size))
                ELSE area
        IN IF original_size # <<>> /\ resized_size # <<>>
           THEN IF "answer_bbox_2d" \in DOMAIN area
                THEN SetKey(with_bbox, "answer_bbox_2d",
                            ConvertCoordsToOriginal(area.answer_bbox_2d,
                                                    original_size, resized_size))
                ELSE with_bbox
           ELSE area]

\* [0, 0, 0, 0], the box of an area that carries none
ZeroBox == <<0, 0, 0, 0>>

\* the areas are rescaled whenever they carry their sizes
NeedsConversion_WhenCarried(areas, image_width, image_height) ==
    /\ "original_size" \in DOMAIN areas[1]
    /\ "resized_size" \in DOMAIN areas[1]

\* needs_conversion of get_question_positions_for_grading
NeedsConversion(areas, image_width, image_height) ==
    /\ "original_size" \in DOMAIN areas[1]
    /\ "resized_size" \in DOMAIN areas[1]
    /\ <<image_width, image_height>> # areas[1].resized_size

\* offsets random.randint(0, 100) may give: its least and its largest
Jitters == {0, 100}

\* AIProcessor.get_question_positions_for_grading with question_areas given;
\* jitter[i] is the random offset drawn for the i-th area
GetQuestionPositionsForGrading(image_width, image_height, areas, jitter) ==
    IF areas = <<>> THEN <<>>
    ELSE LET question_areas_converted ==
                 IF NeedsConversion(areas, image_width, image_height)
                 THEN ConvertQuestionAreasToOriginal(areas)
                 ELSE areas
         IN [i \in 1..Len(areas) |->
                LET area == question_areas_converted[i]
                    bbox_2d == Get(area, "bbox_2d", ZeroBox)
                IN [question_number |-> Get(area, "question_number", ""),
                    question_type |-> Get(area, "question_type", ""),
                    bbox_2d |-> bbox_2d,
                    answer_bbox_2d |-> Get(area, "answer_bbox_2d", ZeroBox),
                    x |-> TruncateQuotient(bbox_2d[1] + bbox_2d[3] + 2 * jitter[i], 2),
                    y |-> TruncateQuotient(bbox_2d[2] + bbox_2d[4], 2),
                    width |-> 100,
                    height |-> 100,
                    confidence |-> Get(area, "confidence", "0.5")]]

\* the "positions" record a question receives from an area
AreaPositions(area) ==
    [bbox_2d |-> Get(area, "bbox_2d", ZeroBox),
     answer_bbox_2d |-> Get(area, "answer_bbox_2d", ZeroBox),
     confidence |-> Get(area, "confidence", "0.5")]

\* sum(len(section.get("questions", [])) for section in sections)
RECURSIVE TotalQuestions(_)
TotalQuestions(sections) ==
    IF sections = <<>> THEN 0
    ELSE Len(Get(Head(sections), "questions", <<>>)) + TotalQuestions(Tail(sections))

\* the index stays where it is
AdvanceIndex_Stay(position_index) == position_index

\* position_index += 1
AdvanceIndex(position_index) == position_index + 1

\* the inner loop of the matching by order: the questions of one section,
\* then the index the next section starts from
RECURSIVE SaveInOrderQuestions(_, _, _)
SaveInOrderQuestions(qs, areas, position_index) ==
    IF qs = <<>> THEN [questions |-> <<>>, position_index |-> position_index]
    ELSE IF position_index < Len(areas)
         THEN LET rest == SaveInOrderQuestions(Tail(qs), areas,
                                               AdvanceIndex(position_index))
              IN [questions |->
                      <<SetKey(Head(qs), "positions",
                               AreaPositions(areas[position_index + 1]))>>
                          \o rest.questions,
                  position_index |-> rest.position_index]
         ELSE LET rest == SaveInOrderQuestions(Tail(qs), areas, position_index)
              IN [questions |-> <<Head(qs)>> \o rest.questions,
                  position_index |-> rest.position_index]

\* the outer loop of the matching by order
RECURSIVE SaveInOrder(_, _, _)
SaveInOrder(sections, areas, position_index) ==
    IF sections = <<>> THEN <<>>
    ELSE LET section == Head(sections)
             saved == SaveInOrderQuestions(Get(section, "questions", <<>>),
                                           areas, position_index)
         IN <<IF "questions" \in DOMAIN section
              THEN [section EXCEPT !.questions = saved.questions]
              ELSE section>>
                \o SaveInOrder(Tail(sections), areas, saved.position_index)

\* positions_by_type_and_number[question_type][question_number] = {...}
RECURSIVE PositionsByTypeAndNumber(_, _)
PositionsByTypeAndNumber(positions, areas) ==
    IF areas = <<>> THEN positions
    ELSE LET area == Head(areas)
             question_type == Get(area, "question_type", "")
             question_number == Get(area, "question_number", "")
             type_positions == Get(positions, question_type, <<>>)
         IN PositionsByTypeAndNumber(
                SetKey(positions, question_type,
                       SetKey(type_positions, question_number, AreaPositions(area))),
                Tail(areas))

\* the questions are numbered from 0
QuestionNumber_FromZero(i) == ToString(i - 1)

\* question_number = str(i + 1), for the i-th question counted from 1
QuestionNumber(i) == ToString(i)

\* the matching by type and number, over every section
SaveByTypeAndNumber(sections, areas) ==
    LET positions_by_type_and_number == PositionsByTypeAndNumber(<<>>, areas)
    IN [s \in 1..Len(sections) |->
           LET section == sections[s]
               section_type == Get(section, "type", "")
               qs == Get(section, "questions", <<>>)
           IN IF section_type \in DOMAIN positions_by_type_and_number
                 /\ "questions" \in DOMAIN section
              THEN LET type_positions == positions_by_type_and_number[section_type]
                   IN [section EXCEPT !.questions =
                          [i \in 1..Len(qs) |->
                              IF QuestionNumber(i) \in DOMAIN type_positions
                              THEN SetKey(qs[i], "positions",
                                          type_positions[QuestionNumber(i)])
                              ELSE qs[i]]]
              ELSE section]

\* AIProcessor.save_question_positions_to_sections, on one student answer
SaveQuestionPositionsToSections(areas, answer) ==
    LET sections == Get(answer, "sections", <<>>)
    IN IF "sections" \notin DOMAIN answer THEN answer
       ELSE [answer EXCEPT !.sections =
                IF Len(areas) = TotalQuestions(sections)
                THEN SaveInOrder(sections, areas, 0)
                ELSE SaveByTypeAndNumber(sections, areas)]

\* the question ids of a student answer in the order of its sections
RECURSIVE QuestionOrder(_)
QuestionOrder(sections) ==
    IF sections = <<>> THEN <<>>
    ELSE LET qs == Get(Head(sections), "questions", <<>>)
             ids == [i \in 1..Len(qs) |-> Get(qs[i], "id", "")]
         IN SelectSeq(ids, LAMBDA id : id # "") \o QuestionOrder(Tail(sections))

\* grading_map_by_id[question_id] = result
RECURSIVE GradingMapById(_, _)
GradingMapById(grading_map, results) ==
    IF results = <<>> THEN grading_map
    ELSE LET question_id == Get(Head(results), "question_id", "")
         IN GradingMapById(
                IF question_id # "" THEN SetKey(grading_map, question_id, Head(results))
                ELSE grading_map,
                Tail(results))

\* one pair the marker draws: a tick when the result is correct
MatchedPair(position, grading_result) ==
    [position |-> position, grading_result |-> grading_result,
     is_correct |-> MarkerIsQuestionCorrect(grading_result)]

\* question_positions[i] for the i-th question id
PairedPosition(positions, i) == positions[i]

\* matched_pairs when the positions are as many as the question ids
RECURSIVE MatchInOrder(_, _, _, _)
MatchInOrder(question_order, positions, grading_map_by_id, i) ==
    IF i > Len(question_order) THEN <<>>
    ELSE (IF question_order[i] \in DOMAIN grading_map_by_id
          THEN <<MatchedPair(PairedPosition(positions, i),
                             grading_map_by_id[question_order[i]])>>
          ELSE <<>>)
         \o MatchInOrder(question_order, positions, grading_map_by_id, i + 1)

\* for i, question in enumerate(questions): the number of the first
\* question of that id, "" when there is none
RECURSIVE FindInQuestions(_, _, _)
FindInQuestions(qs, question_id, i) ==
    IF i > Len(qs) THEN ""
    ELSE IF Get(qs[i], "id", "") = question_id THEN ToString(i)
         ELSE FindInQuestions(qs, question_id, i + 1)

\* ImageGradingMarker._find_question_number_by_id; "" stands for None
RECURSIVE FindQuestionNumberById(_, _, _)
FindQuestionNumberById(sections, question_id, question_type) ==
    IF sections = <<>> THEN ""
    ELSE LET found ==
                 IF Get(Head(sections), "type", "") = question_type
                 THEN FindInQuestions(Get(Head(sections), "questions", <<>>),
                                      question_id, 1)
                 ELSE ""
         IN IF found # "" THEN found
            ELSE FindQuestionNumberById(Tail(sections), question_id, question_type)

\* grading_map[student_type_number] = result
RECURSIVE LegacyGradingMap(_, _, _)
LegacyGradingMap(grading_map, results, practice_data) ==
    IF results = <<>> THEN grading_map
    ELSE LET result == Head(results)
             question_type == Get(result, "question_type", "")
             question_number ==
                 FindQuestionNumberById(Get(practice_data, "sections", <<>>),
                                        Get(result, "question_id", ""), question_type)
         IN LegacyGradingMap(
                IF question_number # ""
                THEN SetKey(grading_map,
                            <<Get(result, "student_id", ""), question_type,
                              question_number>>,
                            result)
                ELSE grading_map,
                Tail(results), practice_data)

\* ImageGradingMarker._mark_with_legacy_logic on the results of one student
MarkWithLegacyLogic(results, practice_data, positions) ==
    LET grading_map == LegacyGradingMap(<<>>, results, practice_data)
        current_student_id ==
            IF results = <<>> THEN "" ELSE Get(results[1], "student_id", "")
        Pairs[i \in 0..Len(positions)] ==
            IF i = 0 THEN <<>>
            ELSE LET key == <<current_student_id,
                              Get(positions[i], "question_type", ""),
                              Get(positions[i], "question_number", "")>>
                 IN IF key \in DOMAIN grading_map
                    THEN Append(Pairs[i - 1],
                                MatchedPair(positions[i], grading_map[key]))
                    ELSE Pairs[i - 1]
    IN Pairs[Len(positions)]

\* the pairs ImageGradingMarker.mark_image_with_grading_results draws when
\* the positions and the student answer are given
MarkImageWithGradingResults(results, practice_data, positions, answer) ==
    LET question_order == QuestionOrder(Get(answer, "sections", <<>>))
    IN IF Len(positions) = Len(question_order)
       THEN MatchInOrder(question_order, positions, GradingMapById(<<>>, results), 1)
       ELSE MarkWithLegacyLogic(results, practice_data, positions)

\* the grading loop of process_student_images on one student answer: one
\* result per practice question the student answered, correct or not
GradeStudentAnswer(practice_data, answer, correct_ids) ==
    LET sections == practice_data.sections
        Answered(s, i) ==
            LET same == {a \in 1..Len(answer.sections) :
                            answer.sections[a].type = sections[s].type}
            IN /\ same # {}
               /\ LET sa_section ==
                          answer.sections[CHOOSE a \in same : \A b \in same : a <= b]
                  IN \E k \in 1..Len(sa_section.questions) :
                        sa_section.questions[k].id = sections[s].questions[i].id
        ResultOf(s, i) ==
            [question_id |-> sections[s].questions[i].id,
             question_type |-> sections[s].type,
             student_id |-> answer.student_id,
             is_correct |-> sections[s].questions[i].id \in correct_ids]
        OfSection(s) ==
            LET Upto[i \in 0..Len(sections[s].questions)] ==
                    IF i = 0 THEN <<>>
                    ELSE IF Answered(s, i) THEN Append(Upto[i - 1], ResultOf(s, i))
                         ELSE Upto[i - 1]
            IN Upto[Len(sections[s].questions)]
        All[s \in 0..Len(sections)] ==
            IF s = 0 THEN <<>> ELSE All[s - 1] \o OfSection(s)
    IN All[Len(sections)]

----------------------------------------------------------------------------
(* Inputs of the position pipeline *)

StudentQuestion(id) == [id |-> id]

AnswerSection(type, ids) ==
    [type |-> type, questions |-> [i \in 1..Len(ids) |-> StudentQuestion(ids[i])]]

\* the practice the students answered: two choice questions, one calculation
PracticeData ==
    [sections |-> <<AnswerSection("choice", <<"q1", "q2">>),
                    AnswerSection("calculation", <<"q3">>)>>]

\* student answers as parse_student_answer_from_ocr returns them: the whole
\* practice, answers with questions missing or unidentified, and the record
\* without sections
StudentAnswers ==
    {[student_id |-> "student_1", sections |-> sections] :
        sections \in
            {<<AnswerSection("choice", <<"q1", "q2">>),
               AnswerSection("calculation", <<"q3">>)>>,
             <<AnswerSection("choice", <<"q2">>),
               AnswerSection("calculation", <<"q3">>)>>,
             <<AnswerSection("choice", <<"q1", "">>),
               AnswerSection("calculation", <<"q3">>)>>,
             <<AnswerSection("calculation", <<"q3">>)>>,
             <<>>}}

\* the box and the answer box the detector gives its i-th area
BoxAt(i) == <<i, i, i + 2, i + 3>>

AnswerBoxAt(i) == <<i, i + 1, i + 2, i + 3>>

\* [resize_size, resize_size]
ResizedSize == <<2, 2>>

\* size of the image as the student uploaded it
OriginalSize == <<3, 4>>

\* the sizes detect_question_areas adds to every area
SizeInfo == [original_size |-> OriginalSize, resized_size |-> ResizedSize]

\* (question_number, question_type) as the detector reads them
AreaKeys == {"1", "2"} \X {"choice", "calculation"}

\* area lists: the i-th area carries the i-th box, every area of a list
\* carries the sizes or none does
AreaLists ==
    UNION {
        {[i \in 1..n |->
            LET area == [question_number |-> keys[i][1],
                         question_type |-> keys[i][2],
                         bbox_2d |-> BoxAt(i),
                         answer_bbox_2d |-> AnswerBoxAt(i),
                         confidence |-> "0.8"]
            IN IF sized THEN area @@ SizeInfo ELSE area] :
            keys \in [1..n -> AreaKeys], sized \in BOOLEAN}
        : n \in 1..MaxAreas}

\* sizes the positions are asked for
TargetSizes == {ResizedSize, OriginalSize}

\* the ids the grader may find correct
CorrectIdSets == {{}, {"q1", "q3"}}

Coords == -1..MaxCoord

Sizes == 1..MaxSize

\* boxes handed to convert_coords_to_original, two of them malformed
Boxes == [1..4 -> Coords] \cup {<<>>, <<1, 2, 3>>}

----------------------------------------------------------------------------
(* Actions of the position pipeline *)

\* parse_student_answer_from_ocr returns the answer; student_id is added
ParseStudentAnswer(answer) ==
    /\ step = "idle"
    /\ step' = "parsed"
    /\ student_answer' = answer
    /\ UNCHANGED <<question_areas, image_size, question_positions,
                   student_grading_results, matched_pairs, conversion>>
    /\ UNCHANGED bankVars
    /\ UNCHANGED gradingVars
    /\ UNCHANGED aiVars
    /\ UNCHANGED loadVars
    /\ UNCHANGED sessionVars

\* detect_question_areas returns a non-empty list for the image
DetectQuestionAreas(areas) ==
    /\ step = "parsed"
    /\ step' = "detected"
    /\ question_areas' = areas
    /\ UNCHANGED <<student_answer, image_size, question_positions,
                   student_grading_results, matched_pairs, conversion>>
    /\ UNCHANGED bankVars
    /\ UNCHANGED gradingVars
    /\ UNCHANGED aiVars
    /\ UNCHANGED loadVars
    /\ UNCHANGED sessionVars

\* save_question_positions_to_sections(question_areas, [student_answer])
CallSaveQuestionPositionsToSections ==
    /\ step = "detected"
    /\ step' = "saved"
    /\ student_answer' = SaveQuestionPositionsToSections(question_areas, student_answer)
    /\ UNCHANGED <<question_areas, image_size, question_positions,
                   student_grading_results, matched_pairs, conversion>>
    /\ UNCHANGED bankVars
    /\ UNCHANGED gradingVars
    /\ UNCHANGED aiVars
    /\ UNCHANGED loadVars
    /\ UNCHANGED sessionVars

\* get_question_positions_for_grading(image_width, image_height, question_areas)
CallGetQuestionPositionsForGrading(size) ==
    /\ step = "saved"
    /\ step' = "positioned"
    /\ image_size' = size
    /\ \E jitter \in [1..Len(question_areas) -> Jitters] :
          question_positions' =
              GetQuestionPositionsForGrading(size[1], size[2], question_areas, jitter)
    /\ UNCHANGED <<student_answer, question_areas, student_grading_results,
                   matched_pairs, conversion>>
    /\ UNCHANGED bankVars
    /\ UNCHANGED gradingVars
    /\ UNCHANGED aiVars
    /\ UNCHANGED loadVars
    /\ UNCHANGED sessionVars

\* mark_image_with_grading_results with the student's results
CallMarkImageWithGradingResults(practice_data, correct_ids) ==
    /\ step = "positioned"
    /\ step' = "marked"
    /\ student_grading_results' =
           GradeStudentAnswer(practice_data, student_answer, correct_ids)
    /\ matched_pairs' =
           MarkImageWithGradingResults(student_grading_results', practice_data,
                                       question_positions, student_answer)
    /\ UNCHANGED <<student_answer, question_areas, image_size, question_positions,
                   conversion>>
    /\ UNCHANGED bankVars
    /\ UNCHANGED gradingVars
    /\ UNCHANGED aiVars
    /\ UNCHANGED loadVars
    /\ UNCHANGED sessionVars

\* the next image is handled from scratch
NextImage ==
    /\ step \in {"marked", "converted"}
    /\ step' = "idle"
    /\ student_answer' = [student_id |-> "", sections |-> <<>>]
    /\ question_areas' = <<>>
    /\ image_size' = <<>>
    /\ question_positions' = <<>>
    /\ student_grading_results' = <<>>
    /\ matched_pairs' = <<>>
    /\ conversion' = [bbox |-> <<>>, original_size |-> <<>>,
                      resized_size |-> <<>>, result |-> <<>>]
    /\ UNCHANGED bankVars
    /\ UNCHANGED gradingVars
    /\ UNCHANGED aiVars
    /\ UNCHANGED loadVars
    /\ UNCHANGED sessionVars

\* convert_coords_to_original(bbox, original_size, resized_size)
CallConvertCoordsToOriginal(bbox, original_size, resized_size) ==
    /\ step = "idle"
    /\ step' = "converted"
    /\ conversion' = [bbox |-> bbox, original_size |-> original_size,
                      resized_size |-> resized_size,
                      result |-> ConvertCoordsToOriginal(bbox, original_size,
                                                         resized_size)]
    /\ UNCHANGED <<student_answer, question_areas, image_size, question_positions,
                   student_grading_results, matched_pairs>>
    /\ UNCHANGED bankVars
    /\ UNCHANGED gradingVars
    /\ UNCHANGED aiVars
    /\ UNCHANGED loadVars
    /\ UNCHANGED sessionVars

InitPositions ==
    /\ questions = <<>>
    /\ BankIdle
    /\ NoGrading
    /\ NoPositions
    /\ NoSession

NextPositions ==
    \/ \E answer \in StudentAnswers : ParseStudentAnswer(answer)
    \/ \E areas \in AreaLists : DetectQuestionAreas(areas)
    \/ CallSaveQuestionPositionsToSections
    \/ \E size \in TargetSizes : CallGetQuestionPositionsForGrading(size)
    \/ \E correct_ids \in CorrectIdSets :
          CallMarkImageWithGradingResults(PracticeData, correct_ids)
    \/ NextImage

\* student images are parsed, their areas detected, matched and marked
SpecPositions == InitPositions /\ [][NextPositions]_vars

NextCoords ==
    \/ \E bbox \in Boxes, original_size \in [1..2 -> Sizes],
          resized_size \in [1..2 -> Sizes] :
          CallConvertCoordsToOriginal(bbox, original_size, resized_size)
    \/ NextImage

\* boxes are converted from every resized size to every original size
SpecCoords == InitPositions /\ [][NextCoords]_vars

----------------------------------------------------------------------------
(* Calls of the AI service and their safe defaults: src/src/ai.py,          *)
(* src/src/knowledge_base.py                                                *)

\* what a call of the AI service comes to: it raises, it answers text that
\* is no JSON, or it answers content
Raised == [status |-> "raised", content |-> <<>>]

Garbled == [status |-> "garbled", content |-> <<>>]

Answered(content) == [status |-> "ok", content |-> content]

\* knowledge_base.get_all_knowledge_points()
AllKnowledgePoints ==
    <<[outline |-> "A", detail |-> "detail of A", keywords |-> <<"a1", "a2">>],
      [outline |-> "B", detail |-> "detail of B", keywords |-> <<"b1">>]>>

\* KnowledgeBase.find_matching_knowledge_points; a text is its words and a
\* keyword is found in it when it is one of them
FindMatchingKnowledgePoints(text) ==
    SelectSeq(AllKnowledgePoints,
              LAMBDA point : \E k \in 1..Len(point.keywords) :
                                Contains(text, point.keywords[k]))

\* the points the answered numbers name, numbers out of range left out
RECURSIVE MatchedPoints(_)
MatchedPoints(numbers) ==
    IF numbers = <<>> THEN <<>>
    ELSE LET index == Head(numbers) - 1
         IN (IF 0 <= index /\ index < Len(AllKnowledgePoints)
             THEN <<AllKnowledgePoints[index + 1]>> ELSE <<>>)
            \o MatchedPoints(Tail(numbers))

\* AIProcessor.extract_knowledge_points; the content is the numbers found
\* in the answer
ExtractKnowledgePoints(text, response) ==
    IF response.status = "raised" THEN FindMatchingKnowledgePoints(text)
    ELSE MatchedPoints(response.content)

\* name of the student no name was read for (U+672A U+77E5 U+5B66 U+751F)
UnknownStudentName == "weizhi xuesheng"

\* AIProcessor.parse_student_answer_from_ocr
ParseStudentAnswerFromOcr(response) ==
    IF response.status = "ok" THEN response.content
    ELSE [name |-> UnknownStudentName, practice_id |-> "", sections |-> <<>>]

\* final_answer_explanation of a result that could not be judged
JudgeFailureExplanation == "pigai guocheng zhong chuxian cuowu"

\* the result without a verdict
JudgeFailure_NoVerdict ==
    [final_answer_correct |-> FALSE,
     steps_analysis |-> <<>>,
     final_answer_explanation |-> JudgeFailureExplanation]

\* the result grade_calculation_question returns when the judge failed
JudgeFailure ==
    [overall_correct |-> FALSE,
     final_answer_correct |-> FALSE,
     steps_analysis |-> <<>>,
     final_answer_explanation |-> JudgeFailureExplanation]

\* AIProcessor.grade_calculation_question
GradeCalculationQuestion(response) ==
    IF response.status = "ok" THEN response.content ELSE JudgeFailure

\* the fields detect_question_areas adds to an area of the answer
WithAreaDefaults(area) ==
    LET bbox == Get(area, "bbox_2d", ZeroBox)
        sized == SetKey(SetKey(area, "original_size", OriginalSize),
                        "resized_size", ResizedSize)
        boxed ==
            IF "answer_bbox_2d" \in DOMAIN sized THEN sized
            ELSE SetKey(sized, "answer_bbox_2d",
                        IF Len(bbox) = 4
                        THEN <<bbox[1],
                               bbox[2] + TruncateQuotient((bbox[4] - bbox[2]) * 6, 10),
                               bbox[3], bbox[4]>>
                        ELSE ZeroBox)
        typed == IF "question_type" \in DOMAIN boxed THEN boxed
                 ELSE SetKey(boxed, "question_type", "unknown")
    IN IF "confidence" \in DOMAIN typed THEN typed
       ELSE SetKey(typed, "confidence", "0.8")

\* AIProcessor.detect_question_areas
DetectedQuestionAreas(response) ==
    IF response.status = "ok"
    THEN [i \in 1..Len(response.content) |-> WithAreaDefaults(response.content[i])]
    ELSE <<>>

\* grading_result.update({"question_type": ..., "knowledge_points": ...})
UpdateGradingResult(grading_result, question_type, kps) ==
    SetKey(SetKey(grading_result, "question_type", question_type),
           "knowledge_points", kps)

----------------------------------------------------------------------------
(* Inputs of the AI calls *)

\* texts a teacher asks a practice with
Texts == {<<>>, <<"a2">>, <<"b1", "a1">>, <<"zz">>}

\* what the service answers to extract_knowledge_points
ExtractResponses ==
    {Raised} \cup {Answered(numbers) : numbers \in {<<>>, <<2>>, <<3, 0, 1>>}}

\* what the service answers to parse_student_answer_from_ocr
ParseResponses ==
    {Raised, Garbled,
     Answered([name |-> "n", practice_id |-> "",
               sections |-> <<AnswerSection("choice", <<"q1">>)>>])}

\* what the judge answers to grade_calculation_question
JudgeResponses ==
    {Raised, Garbled,
     Answered([overall_correct |-> TRUE, final_answer_correct |-> TRUE,
               steps_analysis |-> <<>>, final_answer_explanation |-> "right"]),
     Answered([overall_correct |-> FALSE, final_answer_correct |-> FALSE,
               steps_analysis |-> <<>>, final_answer_explanation |-> "wrong"])}

\* what the detector answers to detect_question_areas
DetectResponses ==
    {Raised, Garbled, Answered(<<>>),
     Answered(<<[question_number |-> "1", bbox_2d |-> BoxAt(1)],
                [question_number |-> "2", question_type |-> "choice",
                 bbox_2d |-> BoxAt(2), answer_bbox_2d |-> AnswerBoxAt(2),
                 confidence |-> "0.9"]>>)}

\* knowledge_points of the calculation questions that are judged
JudgedKnowledgePointLists == {<<>>, <<ResultKnowledgePoint("A")>>}

----------------------------------------------------------------------------
(* Actions of the AI calls *)

\* extract_knowledge_points(text)
CallExtractKnowledgePoints(text, response) ==
    /\ ai_call' = [function |-> "extract_knowledge_points",
                   status |-> response.status, text |-> text]
    /\ returned' = ExtractKnowledgePoints(text, response)
    /\ UNCHANGED bankVars
    /\ UNCHANGED gradingVars
    /\ UNCHANGED positionVars
    /\ UNCHANGED loadVars
    /\ UNCHANGED sessionVars

\* parse_student_answer_from_ocr(ocr_text, practice_data)
CallParseStudentAnswerFromOcr(response) ==
    /\ ai_call' = [function |-> "parse_student_answer_from_ocr",
                   status |-> response.status, text |-> <<>>]
    /\ returned' = ParseStudentAnswerFromOcr(response)
    /\ UNCHANGED bankVars
    /\ UNCHANGED gradingVars
    /\ UNCHANGED positionVars
    /\ UNCHANGED loadVars
    /\ UNCHANGED sessionVars

\* detect_question_areas(image_path, practice_data)
CallDetectQuestionAreas(response) ==
    /\ ai_call' = [function |-> "detect_question_areas",
                   status |-> response.status, text |-> <<>>]
    /\ returned' = DetectedQuestionAreas(response)
    /\ UNCHANGED bankVars
    /\ UNCHANGED gradingVars
    /\ UNCHANGED positionVars
    /\ UNCHANGED loadVars
    /\ UNCHANGED sessionVars

\* process_student_images grades a calculation question: the judge is
\* called and the updated result is appended to grading_results
JudgeCalculationQuestion(response, kps) ==
    /\ phase = "grading"
    /\ Len(grading_results) < MaxJudged
    /\ ai_call' = [function |-> "grade_calculation_question",
                   status |-> response.status, text |-> <<>>]
    /\ returned' = GradeCalculationQuestion(response)
    /\ grading_results' =
           Append(grading_results, UpdateGradingResult(returned', "calculation", kps))
    /\ UNCHANGED <<phase, marks, total_correct, error_analysis,
                   total_errors, knowledge_point_errors>>
    /\ UNCHANGED bankVars
    /\ UNCHANGED positionVars
    /\ UNCHANGED loadVars
    /\ UNCHANGED sessionVars

NextFailures ==
    \/ \E text \in Texts, response \in ExtractResponses :
          CallExtractKnowledgePoints(text, response)
    \/ \E response \in ParseResponses : CallParseStudentAnswerFromOcr(response)
    \/ \E response \in DetectResponses : CallDetectQuestionAreas(response)
    \/ \E response \in JudgeResponses, kps \in JudgedKnowledgePointLists :
          JudgeCalculationQuestion(response, kps)
    \/ MarkImages
    \/ GenerateGradingReport
    \/ AnalyzeErrors
    \/ ResumeGrading

\* the AI service is called and may fail at every call
SpecFailures == InitGrading /\ [][NextFailures]_vars

----------------------------------------------------------------------------
(* Sessions and the handlers of the interface: src/src/session.py,         *)
(* src/src/main_layout.py, src/src/complete_ui.py                          *)

\* a session_data.json that json.load cannot read
CorruptFile == [corrupt |-> TRUE]

\* a session directory without a session_data.json
NoFile == [nofile |-> TRUE]

\* a directory whose session_data.json is unreadable, and a path at which no
\* directory exists
CorruptPath == "corrupt"

MissingPath == "missing"

\* the disk before any session was created
InitialFiles == [p \in {CorruptPath} |-> CorruptFile]

\* dict.update(other)
Update(d, other) == other @@ d

\* create_session(): a directory of a new name is made (the name is a uuid
\* and the time, here the number of the directory)
FreshPath(files) == ToString(Cardinality(DOMAIN files \ {CorruptPath}) + 1)

CreateSession(files) == [p \in {FreshPath(files)} |-> NoFile] @@ files

\* CompleteSession.initialize: the directory is created when the session has
\* none; the session and the disk afterwards
Initialize(session, files) ==
    IF session.session_path = NoPath
    THEN [session |-> [session EXCEPT !.session_path = FreshPath(files)],
          files |-> CreateSession(files)]
    ELSE [session |-> session, files |-> files]

\* load_complete_session_data raises: the file is there and is no JSON
LoadRaises(files, session_path) ==
    session_path \in DOMAIN files /\ files[session_path] = CorruptFile

\* load_complete_session_data: {} when there is no session_data.json
LoadCompleteSessionData(files, session_path) ==
    IF session_path \in DOMAIN files /\ files[session_path] # NoFile
    THEN files[session_path]
    ELSE <<>>

\* CompleteSession.load_from_path: the path is assigned, then the data is
\* read; the session afterwards and the value returned
LoadFromPath(session, files, session_path) ==
    IF LoadRaises(files, session_path)
    THEN [session |-> [session EXCEPT !.session_path = session_path],
          ok |-> FALSE]
    ELSE [session |-> [session_path |-> session_path,
                       data |-> LoadCompleteSessionData(files, session_path)],
          ok |-> LoadCompleteSessionData(files, session_path) # <<>>]

\* save_complete_session_data raises: open(..., "w") finds no directory
SaveRaises(session, files) ==
    session.session_path # NoPath /\ session.session_path \notin DOMAIN files

\* CompleteSession.save: nothing without a path; else updated_at is set in
\* the data and the data is written to the directory's session_data.json
Save(session, files) ==
    IF session.session_path = NoPath
    THEN [session |-> session, files |-> files]
    ELSE LET session_data == Update(session.data, [updated_at |-> Now])
         IN [session |-> [session EXCEPT !.data = session_data],
             files |-> IF SaveRaises(session, files) THEN files
                       ELSE [files EXCEPT ![session.session_path] = session_data]]

\* what an image of the batch is: its file is missing, its OCR text is
\* empty, or it is read
ImageStates == {"missing", "blank", "read"}

\* the batches of images a teacher uploads
ImageBatches == UNION {[1..n -> ImageStates] : n \in 0..MaxImages}

\* how the student fared on a question: a right or a wrong answer, or the
\* parsed student answer does not hold the question
Verdicts == {"right", "wrong", "unanswered"}

\* f"student_{i + 1}" for the image at list index i (here counted from 1)
StudentId(i) == ToString(i)

\* the student answer parsed from the OCR text of image i, with the
\* student_id the handler adds
ParsedStudentAnswer(i) == [parsed_from |-> i, student_id |-> StudentId(i)]

\* the grading result of one question: the grader's dict (the student's
\* choice is right or wrong by the verdict) updated with the question's id,
\* type and knowledge points and with the student_id
GradedQuestion(question, type, verdict, student_id) ==
    [question_id |-> question.id, question_type |-> type,
     knowledge_points |-> Get(question, "knowledge_points", <<>>),
     is_correct |-> (verdict = "right"), explanation |-> "",
     student_id |-> student_id]

\* the inner loop over the questions of one section: a question the student
\* answer does not hold is passed over
RECURSIVE GradeQuestions(_, _, _, _)
GradeQuestions(section_questions, type, verdicts, student_id) ==
    IF section_questions = <<>> THEN <<>>
    ELSE LET question == Head(section_questions)
             rest == GradeQuestions(Tail(section_questions), type, verdicts, student_id)
         IN IF verdicts[question.id] = "unanswered" THEN rest
            ELSE <<GradedQuestion(question, type, verdicts[question.id], student_id)>>
                     \o rest

\* section_results of one image: the sections of the practice in order
RECURSIVE GradeSections(_, _, _)
GradeSections(sections, verdicts, student_id) ==
    IF sections = <<>> THEN <<>>
    ELSE GradeQuestions(Get(Head(sections), "questions", <<>>),
                        Head(sections).type, verdicts, student_id)
             \o GradeSections(Tail(sections), verdicts, student_id)

\* the first loop of process_student_images from image i on: an image whose
\* file is missing or whose OCR text is empty is skipped, any other adds its
\* student answer and its results
RECURSIVE GradeImages(_, _, _, _)
GradeImages(practice_data, images, verdicts, i) ==
    IF i > Len(images)
    THEN [student_answers |-> <<>>, grading_results |-> <<>>]
    ELSE LET rest == GradeImages(practice_data, images, verdicts, i + 1)
         IN IF images[i] # "read" THEN rest
            ELSE [student_answers |-> <<ParsedStudentAnswer(i)>> \o rest.student_answers,
                  grading_results |->
                      GradeSections(Get(practice_data, "sections", <<>>),
                                    verdicts, StudentId(i))
                          \o rest.grading_results]

\* practice_data.get(...) raises: an image is read and practice_data is None
GradeImagesRaises(practice_data, images) ==
    practice_data = None /\ \E i \in 1..Len(images) : images[i] = "read"

\* student_answers[i] if i < len(student_answers) else None: empty or the
\* one answer
StudentAnswerFor(answers, i) ==
    IF i <= Len(answers) THEN <<answers[i]>> ELSE <<>>

\* one call of mark_image_with_grading_results: the image, the student
\* answer handed over and the results drawn (those of the answer's
\* student_id, or all results when there is no answer)
MarkingCall(results, answers, i) ==
    LET answer == StudentAnswerFor(answers, i)
    IN [image |-> i,
        student_answer |-> answer,
        student_grading_results |->
            IF answer # <<>>
            THEN SelectSeq(results, LAMBDA r : r.student_id = answer[1].student_id)
            ELSE results]

\* the marking loop over original_images from image i on: the marker raises
\* on an image it cannot read, which ends the loop
RECURSIVE MarkImagesFrom(_, _, _, _)
MarkImagesFrom(images, results, answers, i) ==
    IF i > Len(images) THEN [calls |-> <<>>, raised |-> FALSE]
    ELSE IF images[i] = "missing" THEN [calls |-> <<>>, raised |-> TRUE]
         ELSE LET rest == MarkImagesFrom(images, results, answers, i + 1)
              IN [calls |-> <<MarkingCall(results, answers, i)>> \o rest.calls,
                  raised |-> rest.raised]

\* the marking of the batch: nothing is marked without grading results
MarkBatch(images, results, answers) ==
    IF results = <<>> THEN [calls |-> <<>>, raised |-> FALSE]
    ELSE MarkImagesFrom(images, results, answers, 1)

\* marked_images: the marked images in order, [] when the marker raised
MarkedImages(marked) ==
    IF marked.raised THEN <<>>
    ELSE [k \in 1..Len(marked.calls) |-> marked.calls[k].image]

----------------------------------------------------------------------------
(* Inputs of the handlers *)

\* the bank the interface generates practices from
SessionBank ==
    <<Question(1, "choice", <<KnowledgePoint("A")>>),
      Question(2, "choice", <<KnowledgePoint("B")>>),
      Question(3, "choice", <<KnowledgePoint("A")>>)>>

\* the prompts a teacher types: none, or some text
Prompts == {"", "p"}

\* the outlines extract_knowledge_points finds in a prompt
PromptNameLists == {<<"A">>, <<"B">>}

\* how the student fared, per question of the bank
VerdictMaps == [1..Len(SessionBank) -> Verdicts]

\* the paths a teacher can ask to load: none, a directory of the disk, or a
\* path where there is none
LoadablePaths(files) == {NoPath, MissingPath} \cup DOMAIN files

\* the number of session directories made so far
SessionsMade(files) == Cardinality(DOMAIN files \ {CorruptPath})

\* the messages of the handlers (the Chinese texts, in English)
EnterPrompt == "enter a prompt"

UploadImages == "upload the student images"

GenerateFirst == "generate questions first"

GradeFirst == "grade the student answers first"

NoErrorPattern == "no clear error pattern"

NoSessionData == "session data does not exist"

InitializeFirst == "initialize the session first"

Done == "done"

Failed_ == "error"

\* the text generate_teaching_suggestions returns
TeachingSuggestions == "suggestions"

----------------------------------------------------------------------------
(* Actions of the handlers *)

\* the practice the handlers build for a list of outlines
GeneratedPractice(bank, selected) ==
    PracticeToDict(bank, Practice("practice", "uuid", Sections(selected)))

\* what a browser shows of a session
Showing(session) ==
    [session_path |-> session.session_path,
     practice_data |-> Get(session.data, "practice_data", None)]

\* main_layout.MathHelperApp.generate_questions_from_prompt: a new session
\* is made current, its practice generated and saved
GenerateQuestionsFromPrompt(t, prompt, names, cc, calc) ==
    /\ prompt # "" => SessionsMade(session_files) < MaxSessions
    /\ IF prompt = ""
       THEN /\ app_call' = [teacher |-> t, handler |-> "generate_questions_from_prompt",
                            message |-> EnterPrompt]
            /\ UNCHANGED <<current_session, session_files, shown>>
       ELSE \E selected \in RandomSelections(questions, names, cc, calc) :
               LET made == Initialize(NewCompleteSession, session_files)
                   updated ==
                       [made.session EXCEPT !.data =
                           Update(@, [prompt |-> prompt,
                                      knowledge_points |-> names,
                                      practice_data |->
                                          GeneratedPractice(questions, selected)])]
                   saved == Save(updated, made.files)
               IN /\ current_session' = saved.session
                  /\ session_files' = saved.files
                  /\ shown' = [shown EXCEPT ![t] = Showing(saved.session)]
                  /\ app_call' = [teacher |-> t,
                                  handler |-> "generate_questions_from_prompt",
                                  message |-> Done]
    /\ UNCHANGED marking_calls
    /\ UNCHANGED bankVars
    /\ UNCHANGED gradingVars
    /\ UNCHANGED positionVars
    /\ UNCHANGED aiVars
    /\ UNCHANGED loadVars

\* complete_ui.MathHelperApp.generate_questions_from_prompt: the current
\* session is initialized if it has no directory, and its prompt,
\* knowledge_points and practice_data are replaced
CompleteGenerateQuestionsFromPrompt(t, prompt, names) ==
    /\ (prompt # "" /\ current_session.session_path = NoPath)
           => SessionsMade(session_files) < MaxSessions
    /\ IF prompt = ""
       THEN /\ app_call' = [teacher |-> t, handler |-> "generate_questions_from_prompt",
                            message |-> EnterPrompt]
            /\ UNCHANGED <<current_session, session_files, shown>>
       ELSE \E selected \in RandomSelections(questions, names, 2, 2) :
               LET made == Initialize(current_session, session_files)
                   updated ==
                       [made.session EXCEPT !.data =
                           Update(@, [prompt |-> prompt,
                                      knowledge_points |-> names,
                                      practice_data |->
                                          GeneratedPractice(questions, selected)])]
                   saved == Save(updated, made.files)
               IN /\ current_session' = saved.session
                  /\ session_files' = saved.files
                  /\ IF SaveRaises(updated, made.files)
                     THEN /\ shown' = [shown EXCEPT ![t] = NothingShown]
                          /\ app_call' = [teacher |-> t,
                                          handler |-> "generate_questions_from_prompt",
                                          message |-> Failed_]
                     ELSE /\ shown' = [shown EXCEPT ![t] = Showing(saved.session)]
                          /\ app_call' = [teacher |-> t,
                                          handler |-> "generate_questions_from_prompt",
                                          message |-> Done]
    /\ UNCHANGED marking_calls
    /\ UNCHANGED bankVars
    /\ UNCHANGED gradingVars
    /\ UNCHANGED positionVars
    /\ UNCHANGED aiVars
    /\ UNCHANGED loadVars

\* MathHelperApp.process_student_images: the images are graded against the
\* practice of the current session and marked (the marking loop makes the
\* graded_images directory, and the session directory with it), and the
\* answers, results and marked images are stored in the session and saved.
\* (The detection of the question areas, which only places the marks, is
\* left out here.)
ProcessStudentImages(t, images, verdicts) ==
    LET practice_data == Get(current_session.data, "practice_data", <<>>)
        graded == GradeImages(practice_data, images, verdicts, 1)
        marked == MarkBatch(images, graded.grading_results, graded.student_answers)
        made == IF graded.grading_results # <<>>
                       /\ current_session.session_path \notin DOMAIN session_files
                THEN [p \in {current_session.session_path} |-> NoFile]
                         @@ session_files
                ELSE session_files
        updated ==
            [current_session EXCEPT !.data =
                Update(@, [student_answers |-> graded.student_answers,
                           grading_results |-> graded.grading_results,
                           marked_images |-> MarkedImages(marked)])]
        saved == Save(updated, made)
    IN /\ IF images = <<>>
          THEN /\ app_call' = [teacher |-> t, handler |-> "process_student_images",
                               message |-> UploadImages]
               /\ UNCHANGED <<current_session, session_files, marking_calls>>
          ELSE IF current_session.session_path = NoPath
          THEN /\ app_call' = [teacher |-> t, handler |-> "process_student_images",
                               message |-> GenerateFirst]
               /\ UNCHANGED <<current_session, session_files, marking_calls>>
          ELSE IF GradeImagesRaises(practice_data, images)
          THEN /\ app_call' = [teacher |-> t, handler |-> "process_student_images",
                               message |-> Failed_]
               /\ UNCHANGED <<current_session, session_files, marking_calls>>
          ELSE /\ current_session' = saved.session
               /\ session_files' = saved.files
               /\ marking_calls' = marked.calls
               /\ app_call' = [teacher |-> t, handler |-> "process_student_images",
                               message |-> IF SaveRaises(updated, made)
                                           THEN Failed_ ELSE Done]
       /\ UNCHANGED shown
       /\ UNCHANGED bankVars
       /\ UNCHANGED gradingVars
       /\ UNCHANGED positionVars
       /\ UNCHANGED aiVars
       /\ UNCHANGED loadVars

\* MathHelperApp.analyze_errors_only: without grading results it answers
\* that grading comes first; else the report is made and the teaching
\* suggestions are stored in the session and saved
AnalyzeErrorsOnly(t) ==
    LET updated == [current_session EXCEPT !.data =
                       Update(@, [teaching_suggestions |-> TeachingSuggestions])]
        saved == Save(updated, session_files)
    IN /\ IF Get(current_session.data, "grading_results", <<>>) = <<>>
          THEN /\ app_call' = [teacher |-> t, handler |-> "analyze_errors_only",
                               message |-> GradeFirst]
               /\ UNCHANGED <<current_session, session_files>>
          ELSE /\ current_session' = saved.session
               /\ session_files' = saved.files
               /\ app_call' = [teacher |-> t, handler |-> "analyze_errors_only",
                               message |-> IF SaveRaises(updated, session_files)
                                           THEN Failed_ ELSE Done]
       /\ UNCHANGED <<shown, marking_calls>>
       /\ UNCHANGED bankVars
       /\ UNCHANGED gradingVars
       /\ UNCHANGED positionVars
       /\ UNCHANGED aiVars
       /\ UNCHANGED loadVars

\* complete_ui.MathHelperApp.process_student_images: as above, without the
\* marking
CompleteProcessStudentImages(t, images, verdicts) ==
    LET practice_data == Get(current_session.data, "practice_data", <<>>)
        graded == GradeImages(practice_data, images, verdicts, 1)
        updated ==
            [current_session EXCEPT !.data =
                Update(@, [student_answers |-> graded.student_answers,
                           grading_results |-> graded.grading_results])]
        saved == Save(updated, session_files)
    IN /\ IF images = <<>>
          THEN /\ app_call' = [teacher |-> t, handler |-> "process_student_images",
                               message |-> UploadImages]
               /\ UNCHANGED <<current_session, session_files>>
          ELSE IF current_session.session_path = NoPath
          THEN /\ app_call' = [teacher |-> t, handler |-> "process_student_images",
                               message |-> GenerateFirst]
               /\ UNCHANGED <<current_session, session_files>>
          ELSE IF GradeImagesRaises(practice_data, images)
          THEN /\ app_call' = [teacher |-> t, handler |-> "process_student_images",
                               message |-> Failed_]
               /\ UNCHANGED <<current_session, session_files>>
          ELSE /\ current_session' = saved.session
               /\ session_files' = saved.files
               /\ app_call' = [teacher |-> t, handler |-> "process_student_images",
                               message |-> IF SaveRaises(current_session, session_files)
                                           THEN Failed_ ELSE Done]
       /\ UNCHANGED <<shown, marking_calls>>
       /\ UNCHANGED bankVars
       /\ UNCHANGED gradingVars
       /\ UNCHANGED positionVars
       /\ UNCHANGED aiVars
       /\ UNCHANGED loadVars

\* [point["outline"] for point in top_error_points]
Outlines(points) == [i \in 1..Len(points) |-> points[i].outline]

\* the new session is filled without parent_session
RegeneratedSession_NoParent(session, files, bank, analysis, selected) ==
    LET made == Initialize(NewCompleteSession, files)
        error_knowledge_points == Outlines(analysis.top_error_points)
        updated ==
            [made.session EXCEPT !.data =
                Update(@, [prompt |-> "targeted",
                           knowledge_points |-> error_knowledge_points,
                           practice_data |-> GeneratedPractice(bank, selected),
                           error_analysis |-> analysis])]
    IN Save(updated, made.files)

\* the new session regenerate_with_new_session fills and saves; the session
\* and the disk afterwards
RegeneratedSession(session, files, bank, analysis, selected) ==
    LET made == Initialize(NewCompleteSession, files)
        error_knowledge_points == Outlines(analysis.top_error_points)
        updated ==
            [made.session EXCEPT !.data =
                Update(@, [prompt |-> "targeted",
                           knowledge_points |-> error_knowledge_points,
                           practice_data |-> GeneratedPractice(bank, selected),
                           parent_session |-> session.session_path,
                           error_analysis |-> analysis])]
    IN Save(updated, made.files)

\* MathHelperApp.regenerate_with_new_session
RegenerateWithNewSession(t) ==
    LET results == Get(current_session.data, "grading_results", <<>>)
        analysis == AnalyzeErrorKnowledgePoints(results)
        top_error_points == Get(analysis, "top_error_points", <<>>)
    IN /\ (results # <<>> /\ top_error_points # <<>>)
              => SessionsMade(session_files) < MaxSessions
       /\ IF results = <<>>
          THEN /\ app_call' = [teacher |-> t, handler |-> "regenerate_with_new_session",
                               message |-> GradeFirst]
               /\ UNCHANGED <<current_session, session_files, shown>>
          ELSE IF top_error_points = <<>>
          THEN /\ app_call' = [teacher |-> t, handler |-> "regenerate_with_new_session",
                               message |-> NoErrorPattern]
               /\ UNCHANGED <<current_session, session_files, shown>>
          ELSE \E selected \in RandomSelections(questions,
                                                Outlines(top_error_points), 2, 2) :
                  LET saved == RegeneratedSession(current_session, session_files,
                                                  questions, analysis, selected)
                  IN /\ current_session' = saved.session
                     /\ session_files' = saved.files
                     /\ shown' = [shown EXCEPT ![t] = Showing(saved.session)]
                     /\ app_call' = [teacher |-> t,
                                     handler |-> "regenerate_with_new_session",
                                     message |-> Done]
       /\ UNCHANGED marking_calls
       /\ UNCHANGED bankVars
       /\ UNCHANGED gradingVars
       /\ UNCHANGED positionVars
       /\ UNCHANGED aiVars
       /\ UNCHANGED loadVars

\* MathHelperApp.load_session: nothing without a path; the data is loaded
\* into the current session; teaching suggestions are made and saved when
\* the loaded session has grading results and no suggestions yet. (The
\* images are marked again only when the student answers hold question
\* positions, which the answers parsed here do not.)
LoadSession(t, session_path) ==
    LET loaded == LoadFromPath(current_session, session_files, session_path)
        suggested ==
            IF Get(loaded.session.data, "grading_results", <<>>) # <<>>
                   /\ Get(loaded.session.data, "teaching_suggestions", "") = ""
            THEN Save([loaded.session EXCEPT !.data =
                          Update(@, [teaching_suggestions |-> TeachingSuggestions])],
                      session_files)
            ELSE [session |-> loaded.session, files |-> session_files]
    IN /\ IF session_path = NoPath
          THEN /\ app_call' = [teacher |-> t, handler |-> "load_session",
                               message |-> ""]
               /\ UNCHANGED <<current_session, session_files>>
               /\ shown' = [shown EXCEPT ![t] = NothingShown]
          ELSE IF ~loaded.ok
          THEN /\ app_call' = [teacher |-> t, handler |-> "load_session",
                               message |-> NoSessionData]
               /\ current_session' = loaded.session
               /\ UNCHANGED session_files
               /\ shown' = [shown EXCEPT ![t] = NothingShown]
          ELSE /\ app_call' = [teacher |-> t, handler |-> "load_session",
                               message |-> Done]
               /\ current_session' = suggested.session
               /\ session_files' = suggested.files
               /\ shown' = [shown EXCEPT ![t] = Showing(suggested.session)]
       /\ UNCHANGED marking_calls
       /\ UNCHANGED bankVars
       /\ UNCHANGED gradingVars
       /\ UNCHANGED positionVars
       /\ UNCHANGED aiVars
       /\ UNCHANGED loadVars

\* CompleteSession.add_image, called by the add_image handler: without a
\* path it answers that the session comes first; else the images directory
\* is made (and the session directory with it), the image is appended to
\* data["images"] and the session is saved
AddImage(t) ==
    LET made == IF current_session.session_path \in DOMAIN session_files
                THEN session_files
                ELSE [p \in {current_session.session_path} |-> NoFile]
                         @@ session_files
        updated == [current_session EXCEPT !.data =
                       Update(@, [images |->
                                     Append(Get(@, "images", <<>>), "image")])]
        saved == Save(updated, made)
    IN /\ Len(Get(current_session.data, "images", <<>>)) < MaxImages
       /\ IF current_session.session_path = NoPath
          THEN /\ app_call' = [teacher |-> t, handler |-> "add_image",
                               message |-> InitializeFirst]
               /\ UNCHANGED <<current_session, session_files>>
          ELSE /\ app_call' = [teacher |-> t, handler |-> "add_image",
                               message |-> Done]
               /\ current_session' = saved.session
               /\ session_files' = saved.files
       /\ UNCHANGED <<shown, marking_calls>>
       /\ UNCHANGED bankVars
       /\ UNCHANGED gradingVars
       /\ UNCHANGED positionVars
       /\ UNCHANGED aiVars
       /\ UNCHANGED loadVars

\* the application once create_web_app_layout has made the one MathHelperApp
\* all handlers use: a fresh session, the disk, the bank loaded
InitSessions ==
    /\ questions = SessionBank
    /\ BankIdle
    /\ NoGrading
    /\ NoPositions
    /\ dataset = NoDataset
    /\ current_session = NewCompleteSession
    /\ session_files = InitialFiles
    /\ app_call = NoCall
    /\ shown = [t \in Teachers |-> NothingShown]
    /\ marking_calls = <<>>

\* the teacher at the one browser of the single-user specifications
Teacher == "t1"

\* the batches and the answer sheets of the runs that are not about the
\* batch: no image or one image that is read; question 1 answered right
\* with questions 2 and 3 both wrong or both left out, or all three wrong
SessionBatches == {<<>>, <<"read">>}

SessionVerdicts ==
    {v \in VerdictMaps : /\ v[1] \in {"right", "wrong"}
                         /\ v[2] = v[3]
                         /\ v[2] \in {"wrong", "unanswered"}
                         /\ v[1] = "wrong" => v[2] = "wrong"}

\* the answer sheets on which every question fares alike
UniformVerdicts == {[q \in 1..Len(SessionBank) |-> v] : v \in Verdicts}

AllWrong == [q \in 1..Len(SessionBank) |-> "wrong"]

\* one teacher using the interface of main_layout: generating practices of
\* two questions, grading, analysing and regenerating
NextSessions ==
    \/ \E prompt \in Prompts :
          GenerateQuestionsFromPrompt(Teacher, prompt, <<"B">>, 2, 2)
    \/ \E images \in SessionBatches, verdicts \in SessionVerdicts :
          ProcessStudentImages(Teacher, images, verdicts)
    \/ AnalyzeErrorsOnly(Teacher)
    \/ RegenerateWithNewSession(Teacher)

SpecSessions == InitSessions /\ [][NextSessions]_vars

\* one teacher loading sessions, adding images and grading, on practices of
\* one question
NextReload ==
    \/ GenerateQuestionsFromPrompt(Teacher, "p", <<"B">>, 1, 0)
    \/ \E session_path \in LoadablePaths(session_files) :
          LoadSession(Teacher, session_path)
    \/ AddImage(Teacher)
    \/ ProcessStudentImages(Teacher, <<"read">>, AllWrong)

SpecReload == InitSessions /\ [][NextReload]_vars

\* two teachers, each at a browser, using the one application
NextTeachers ==
    \E t \in Teachers :
        \/ \E names \in PromptNameLists :
              GenerateQuestionsFromPrompt(t, "p", names, 1, 0)
        \/ \E verdicts \in SessionVerdicts :
              ProcessStudentImages(t, <<"read">>, verdicts)
        \/ AnalyzeErrorsOnly(t)
        \/ RegenerateWithNewSession(t)

SpecTeachers == InitSessions /\ [][NextTeachers]_vars

\* one teacher grading batches of images of every kind
NextBatch ==
    \/ GenerateQuestionsFromPrompt(Teacher, "p", <<"B">>, 1, 0)
    \/ \E images \in ImageBatches, verdicts \in UniformVerdicts :
          ProcessStudentImages(Teacher, images, verdicts)

SpecBatch == InitSessions /\ [][NextBatch]_vars

\* one teacher using the interface of complete_ui
NextCompleteUi ==
    \/ \E prompt \in Prompts, names \in PromptNameLists :
          CompleteGenerateQuestionsFromPrompt(Teacher, prompt, names)
    \/ \E images \in SessionBatches, verdicts \in SessionVerdicts :
          CompleteProcessStudentImages(Teacher, images, verdicts)
    \/ RegenerateWithNewSession(Teacher)

SpecCompleteUi == InitSessions /\ [][NextCompleteUi]_vars

----------------------------------------------------------------------------
(* Properties of the question selection *)

\* questions of the bank of type t that carry one of the requested names,
\* stated on the bank itself
MatchingIds(t) ==
    {i \in 1..Len(questions) :
        /\ questions[i].type = t
        /\ \E k \in 1..Len(questions[i].knowledge_points), n \in 1..Len(knowledge_points) :
              questions[i].knowledge_points[k].outline = knowledge_points[n]}

BankIds(t) == {i \in 1..Len(questions) : questions[i].type = t}

\* positions of the returned list holding a question of type t
SelectedAt(t) == {p \in 1..Len(selected_questions) : selected_questions[p].type = t}

SelectedIds(t) == {selected_questions[p].id : p \in SelectedAt(t)}

CountFor(t) == IF t = "choice" THEN choice_count ELSE calculation_count

\* C1: the list returned by get_random_questions_by_knowledge_points holds no
\* question id twice, whatever the draws of the matching and backfill phases
C1_NoRepeatedId ==
    pc = "selected" =>
        \A p, r \in 1..Len(selected_questions) :
            p # r => selected_questions[p].id # selected_questions[r].id

\* a call whose backfill added a non-matching question next to a matching one
C1_Witness ==
    /\ pc = "selected"
    /\ \E t \in QuestionTypes :
          /\ SelectedIds(t) \cap MatchingIds(t) # {}
          /\ SelectedIds(t) \ MatchingIds(t) # {}

\* C2: the result holds at most choice_count choice questions and at most
\* calculation_count calculation questions, for every input
C2_CountBounds ==
    pc = "selected" =>
        \A t \in QuestionTypes : Cardinality(SelectedAt(t)) <= CountFor(t)

\* an empty knowledge-point list, both counts larger than the bank, and a
\* non-empty result
C2_Witness ==
    /\ pc = "selected"
    /\ knowledge_points = <<>>
    /\ choice_count > Cardinality(BankIds("choice"))
    /\ calculation_count > Cardinality(BankIds("calculation"))
    /\ BankIds("choice") # {}
    /\ BankIds("calculation") # {}
    /\ Len(selected_questions) = Len(questions)

\* C3: when choice_count exceeds the number of choice questions of the bank,
\* the returned choice questions are all choice questions of the bank, each
\* once, and the call returns (random.sample raises nothing)
C3_ExhaustedChoices ==
    /\ pc = "selected" /\ choice_count > Cardinality(BankIds("choice")) =>
          /\ SelectedIds("choice") = BankIds("choice")
          /\ Cardinality(SelectedAt("choice")) = Cardinality(BankIds("choice"))
    /\ pc = "idle" =>
          \A names \in NameLists, cc \in 0..MaxCount, calc \in 0..MaxCount :
              cc > Cardinality(BankIds("choice")) =>
                  ENABLED CallGetRandomQuestions(names, cc, calc)

\* more choices asked than the bank has, some of them matching and some not
C3_Witness ==
    /\ pc = "selected"
    /\ choice_count > Cardinality(BankIds("choice"))
    /\ MatchingIds("choice") # {}
    /\ BankIds("choice") \ MatchingIds("choice") # {}
    /\ SelectedIds("choice") = BankIds("choice")

\* C4: for each type the result holds at least min(count, m) matching
\* questions, m the number of matching questions of the type, and a
\* non-matching question of a type is returned only with every matching one
C4_MatchingPreferred ==
    pc = "selected" =>
        \A t \in QuestionTypes :
            /\ Cardinality(SelectedIds(t) \cap MatchingIds(t))
                  >= Min(CountFor(t), Cardinality(MatchingIds(t)))
            /\ SelectedIds(t) \ MatchingIds(t) # {} =>
                  MatchingIds(t) \subseteq SelectedIds(t)

\* filler of the type was in the bank, yet only matching questions came back
C4_Witness ==
    /\ pc = "selected"
    /\ \E t \in QuestionTypes :
          /\ CountFor(t) >= 1
          /\ Cardinality(MatchingIds(t)) >= CountFor(t)
          /\ BankIds(t) \ MatchingIds(t) # {}
          /\ SelectedIds(t) \subseteq MatchingIds(t)
          /\ Cardinality(SelectedAt(t)) = CountFor(t)

\* bank positions of the questions with an outline equal to one of the names
NamedIds == MatchingIds("choice") \cup MatchingIds("calculation")

\* C5: get_questions_by_knowledge_points returns, in bank order and each once,
\* exactly the questions with an outline equal to one of the names; a name
\* that is no question's outline adds nothing
C5_ExactMatchOnce ==
    pc = "matched" =>
        /\ Len(matching_questions) = Cardinality(NamedIds)
        /\ {matching_questions[p] : p \in 1..Len(matching_questions)}
              = {questions[i] : i \in NamedIds}
        /\ \A p, r \in 1..Len(matching_questions) :
              p < r => matching_questions[p].id < matching_questions[r].id

\* an unknown name among the names, a question matching through two of its
\* outlines, and a question of the bank left out
C5_Witness ==
    /\ pc = "matched"
    /\ Contains(knowledge_points, UnknownName)
    /\ \E p \in 1..Len(matching_questions) :
          \A k \in 1..Len(matching_questions[p].knowledge_points) :
              /\ Len(matching_questions[p].knowledge_points) = 2
              /\ Contains(knowledge_points,
                          matching_questions[p].knowledge_points[k].outline)
    /\ Len(matching_questions) < Len(questions)
    /\ Len(matching_questions) >= 2

\* C22: for each type, the number of questions of the type in the result is
\* min(requested count, number of questions of the type in the bank): the
\* backfill meets the remaining need from unselected questions of the type,
\* and the result is short only when the bank has no more of the type
C22_BackfillMeetsNeed ==
    pc = "selected" =>
        \A t \in QuestionTypes :
            Len(OfType(selected_questions, t)) =
                Min(CountFor(t), Len(OfType(questions, t)))

\* the choices are backfilled with a question that matches no name, and the
\* calculations fall short because the bank has no more of them
C22_Witness ==
    /\ pc = "selected"
    /\ MatchingIds("choice") # {}
    /\ SelectedIds("choice") \ MatchingIds("choice") # {}
    /\ Len(OfType(selected_questions, "choice")) = choice_count
    /\ BankIds("calculation") # {}
    /\ Len(OfType(selected_questions, "calculation")) < calculation_count

----------------------------------------------------------------------------
(* Properties of the correctness predicates and of the error analysis *)

Results == 1..Len(grading_results)

\* the three-way dispatch as the specification words it
CorrectByDispatch(result) ==
    CASE result.question_type = "choice" ->
            "is_correct" \in DOMAIN result /\ result.is_correct
      [] result.question_type = "calculation" ->
            "overall_correct" \in DOMAIN result /\ result.overall_correct
      [] OTHER ->
            "is_correct" \in DOMAIN result /\ result.is_correct

\* C6: the correctness predicate is a three-way dispatch on question_type
\* (choice: is_correct, calculation: overall_correct, otherwise is_correct,
\* each false when absent), in the marker and in the grading report
C6_ThreeWayDispatch ==
    /\ phase = "marked" =>
          \A i \in Results : marks[i] = CorrectByDispatch(grading_results[i])
    /\ phase = "reported" =>
          total_correct =
              Cardinality({i \in Results : CorrectByDispatch(grading_results[i])})

\* a calculation result with is_correct = true and no overall_correct is
\* marked wrong, next to a choice result marked right
C6_Witness ==
    /\ phase = "marked"
    /\ \E i, j \in Results :
          /\ grading_results[i].question_type = "calculation"
          /\ "overall_correct" \notin DOMAIN grading_results[i]
          /\ Get(grading_results[i], "is_correct", FALSE)
          /\ ~marks[i]
          /\ grading_results[j].question_type = "choice"
          /\ marks[j]

\* knowledge points with a non-empty outline of one result
RECURSIVE NamedPoints(_)
NamedPoints(kps) ==
    IF kps = <<>> THEN 0
    ELSE (IF Head(kps).outline # "" THEN 1 ELSE 0) + NamedPoints(Tail(kps))

RECURSIVE SumErrorCounts(_)
SumErrorCounts(stats) ==
    IF stats = <<>> THEN 0 ELSE Head(stats).error_count + SumErrorCounts(Tail(stats))

\* knowledge points of the results up to n that the canonical predicate
\* is_question_correct finds not correct
RECURSIVE PointsOfNotCorrect(_)
PointsOfNotCorrect(n) ==
    IF n = 0 THEN 0
    ELSE (IF IsQuestionCorrect(grading_results[n]) THEN 0
          ELSE NamedPoints(grading_results[n].knowledge_points))
         + PointsOfNotCorrect(n - 1)

\* C7: analyze_error_knowledge_points counts a result towards the error
\* statistics exactly when is_question_correct is false for it, also when
\* the correctness field of its type is absent
C7_CountsWhenNotCorrect ==
    phase = "analyzed" =>
        SumErrorCounts(error_analysis.error_knowledge_points)
            = PointsOfNotCorrect(Len(grading_results))

ErrorPoints == error_analysis.error_knowledge_points

\* the places (result, knowledge point) where the scan of the incorrect
\* results meets the outline
Occurrences(outline) ==
    UNION {{<<i, k>> : k \in {n \in 1..Len(grading_results[i].knowledge_points) :
                                grading_results[i].knowledge_points[n].outline = outline}}
           : i \in {r \in Results : IsQuestionIncorrect(grading_results[r])}}

FirstSeenBefore(o1, o2) ==
    \E x \in Occurrences(o1) :
        \A y \in Occurrences(o2) :
            x[1] < y[1] \/ (x[1] = y[1] /\ x[2] < y[2])

\* C8: error_knowledge_points is sorted by error_count, largest first, and
\* outlines of equal error_count keep the order in which the scan of the
\* results first met them
C8_RankedStable ==
    phase = "analyzed" =>
        \A p, r \in 1..Len(ErrorPoints) :
            p < r =>
                \/ ErrorPoints[p].error_count > ErrorPoints[r].error_count
                \/ /\ ErrorPoints[p].error_count = ErrorPoints[r].error_count
                   /\ FirstSeenBefore(ErrorPoints[p].outline, ErrorPoints[r].outline)

\* three outlines: the first was met after the second and overtook it, the
\* second and third are tied and in scan order
C8_Witness ==
    /\ phase = "analyzed"
    /\ Len(ErrorPoints) = 3
    /\ FirstSeenBefore(ErrorPoints[2].outline, ErrorPoints[1].outline)
    /\ ErrorPoints[1].error_count > ErrorPoints[2].error_count
    /\ ErrorPoints[2].error_count = ErrorPoints[3].error_count

\* the distinct non-empty outlines of the incorrect results
ErrorOutlines ==
    {o \in UNION {{grading_results[i].knowledge_points[k].outline :
                      k \in 1..Len(grading_results[i].knowledge_points)} : i \in Results} :
        o # "" /\ Occurrences(o) # {}}

\* C9: top_error_points is the prefix of error_knowledge_points of length
\* min(2, number of distinct error outlines); both lists are empty when no
\* result is incorrect
C9_TopIsPrefix ==
    phase = "analyzed" =>
        /\ Len(ErrorPoints) = Cardinality(ErrorOutlines)
        /\ Len(error_analysis.top_error_points) = Min(2, Cardinality(ErrorOutlines))
        /\ \A p \in 1..Len(error_analysis.top_error_points) :
              error_analysis.top_error_points[p] = ErrorPoints[p]
        /\ (\A i \in Results : ~IsQuestionIncorrect(grading_results[i])) =>
              /\ ErrorPoints = <<>>
              /\ error_analysis.top_error_points = <<>>

\* three distinct error outlines, of which the top two are kept
C9_Witness ==
    /\ phase = "analyzed"
    /\ Cardinality(ErrorOutlines) = 3
    /\ Len(error_analysis.top_error_points) = 2

\* the incorrect results that carry the outline
Carriers(outline) == {x[1] : x \in Occurrences(outline)}

\* the carriers whose explanation is non-empty and new among the carriers
FirstTold(outline) ==
    {i \in Carriers(outline) :
        /\ grading_results[i].explanation # ""
        /\ \A j \in Carriers(outline) :
              j < i => grading_results[j].explanation # grading_results[i].explanation}

\* C10: for every outline of the output, error_examples holds at most 3
\* strings, none empty, none repeated: the first (up to 3) distinct non-empty
\* explanations of the incorrect results carrying the outline, in that order
C10_FirstThreeExamples ==
    phase = "analyzed" =>
        \A p \in 1..Len(ErrorPoints) :
            LET examples == ErrorPoints[p].error_examples
                told == FirstTold(ErrorPoints[p].outline)
            IN /\ Len(examples) = Min(3, Cardinality(told))
               /\ \A x \in 1..Len(examples) :
                     /\ examples[x] # ""
                     /\ \A y \in 1..Len(examples) : x # y => examples[x] # examples[y]
                     /\ \E i \in told :
                           /\ grading_results[i].explanation = examples[x]
                           /\ Cardinality({j \in told : j < i}) = x - 1

\* four distinct explanations were given for an outline and three are kept
C10_Witness ==
    /\ phase = "analyzed"
    /\ \E p \in 1..Len(ErrorPoints) :
          /\ Cardinality(FirstTold(ErrorPoints[p].outline)) = 4
          /\ Len(ErrorPoints[p].error_examples) = 3

\* the incorrect results that name no knowledge point
UnnamedErrors ==
    {i \in Results : /\ IsQuestionIncorrect(grading_results[i])
                     /\ Get(grading_results[i], "knowledge_points", <<>>) = <<>>}

NamedErrors ==
    {i \in Results : /\ IsQuestionIncorrect(grading_results[i])
                     /\ Get(grading_results[i], "knowledge_points", <<>>) # <<>>}

\* grading_results without the incorrect results that name no knowledge point
RECURSIVE WithoutUnnamedErrors(_)
WithoutUnnamedErrors(n) ==
    IF n = 0 THEN <<>>
    ELSE IF n \in UnnamedErrors THEN WithoutUnnamedErrors(n - 1)
         ELSE Append(WithoutUnnamedErrors(n - 1), grading_results[n])

\* C11: an incorrect result with an empty knowledge_points list is counted
\* in the report's total of incorrect results, and the statistics are those
\* of the list without it: no entry added, no error_count changed
C11_UnnamedErrorCounted ==
    phase = "analyzed" =>
        /\ total_errors = Cardinality(UnnamedErrors) + Cardinality(NamedErrors)
        /\ error_analysis =
               AnalyzeErrorKnowledgePoints(WithoutUnnamedErrors(Len(grading_results)))

C11_Witness ==
    /\ phase = "analyzed"
    /\ UnnamedErrors # {}
    /\ NamedErrors # {}
    /\ total_errors > Cardinality(NamedErrors)
    /\ Len(ErrorPoints) >= 1

\* the outlines carried by the results that is_question_correct finds correct
OutlinesOfCorrect ==
    UNION {{grading_results[i].knowledge_points[k].outline :
               k \in 1..Len(grading_results[i].knowledge_points)}
           : i \in {r \in Results : IsQuestionCorrect(grading_results[r])}}

\* C23: every entry of error_knowledge_points has error_count >= 1 and a
\* non-empty outline no other entry has; its error_count is the number of
\* knowledge-point entries with its outline over all incorrect results, an
\* outline listed twice in one result counted twice; an outline carried by
\* correct results only has no entry
C23_CountsSumOverIncorrect ==
    phase = "analyzed" =>
        /\ \A p \in 1..Len(ErrorPoints) :
              /\ ErrorPoints[p].error_count >= 1
              /\ ErrorPoints[p].outline # ""
              /\ \A r \in 1..Len(ErrorPoints) :
                    r # p => ErrorPoints[r].outline # ErrorPoints[p].outline
              /\ ErrorPoints[p].error_count =
                    Cardinality(Occurrences(ErrorPoints[p].outline))
        /\ \A o \in OutlinesOfCorrect :
              Occurrences(o) = {} =>
                  \A p \in 1..Len(ErrorPoints) : ErrorPoints[p].outline # o

\* an incorrect result lists one outline twice and both are counted, another
\* incorrect result adds to the same outline, and a correct result carries
\* an outline that gets no entry
C23_Witness ==
    /\ phase = "analyzed"
    /\ \E p \in 1..Len(ErrorPoints) :
          /\ ErrorPoints[p].error_count = 3
          /\ \E x, y \in Occurrences(ErrorPoints[p].outline) :
                x[1] = y[1] /\ x[2] # y[2]
          /\ \E x, y \in Occurrences(ErrorPoints[p].outline) : x[1] # y[1]
    /\ \E o \in OutlinesOfCorrect :
          /\ o # ""
          /\ \A p \in 1..Len(ErrorPoints) : ErrorPoints[p].outline # o

\* C12: whatever calls came before, on shorter or other lists, a call on a
\* list returns what a first call on that list returns, and it leaves the
\* list and its records as they were
C12_NoStateBetweenCalls ==
    /\ [](phase = "analyzed" =>
            error_analysis = AnalyzeErrorKnowledgePoints(grading_results))
    /\ [][phase' = "analyzed" => grading_results' = grading_results]_vars

\* an earlier call has left its dict behind, the list has changed since, and
\* the analysis is about to be called on it
C12_Witness ==
    /\ phase = "grading"
    /\ knowledge_point_errors # <<>>
    /\ grading_results # <<>>
    /\ knowledge_point_errors # ScanResults(<<>>, grading_results)
    /\ ENABLED AnalyzeErrors

----------------------------------------------------------------------------
(* Properties of the practices *)

PracticeSections == 1..Len(practice.sections)

\* the places (section, position) of the practice
PracticePlaces ==
    UNION {{<<i, k>> : k \in 1..Len(practice.sections[i].question_ids)} :
              i \in PracticeSections}

IdAt(place) == practice.sections[place[1]].question_ids[place[2]]

\* C13: in a created practice every id of a section is the id of a bank
\* question of the section's type, and no id stands at two places
C13_SectionIdsTyped ==
    pc \in {"created", "expanded"} =>
        /\ \A place \in PracticePlaces :
              \E n \in 1..Len(questions) :
                  /\ questions[n].id = IdAt(place)
                  /\ questions[n].type = practice.sections[place[1]].type
        /\ \A p1, p2 \in PracticePlaces : IdAt(p1) = IdAt(p2) => p1 = p2

C13_Witness ==
    /\ pc = "created"
    /\ Len(practice.sections) = 2
    /\ Len(practice.sections[2].question_ids) >= 2
    /\ knowledge_points = <<UnknownName>>

SectionLabel(type) == IF type = "choice" THEN ChoiceSectionName ELSE CalculationSectionName

\* C14: a created practice has one section for each type of which a
\* question was selected and none for the other: at most two sections, none
\* with an empty question_ids, the choice section before the calculation
\* section, each under its label
C14_SectionPerPartition ==
    pc \in {"created", "expanded"} =>
        /\ Len(practice.sections) <= 2
        /\ \A i \in PracticeSections :
              /\ practice.sections[i].question_ids # <<>>
              /\ practice.sections[i].type \in QuestionTypes
              /\ practice.sections[i].name = SectionLabel(practice.sections[i].type)
        /\ \A t \in QuestionTypes :
              (\E i \in PracticeSections : practice.sections[i].type = t)
                  <=> (\E n \in 1..Len(selected_questions) :
                          selected_questions[n].type = t)
        /\ \A i, j \in PracticeSections :
              i < j => /\ practice.sections[i].type = "choice"
                       /\ practice.sections[j].type = "calculation"

C14_Witness ==
    /\ pc = "created"
    /\ choice_count > 0
    /\ calculation_count > 0
    /\ Len(practice.sections) = 1
    /\ practice.sections[1].type = "calculation"

\* C15: practice_to_dict keeps the number and the order of the sections,
\* every dict section carries its source's question_ids, and the expanded
\* questions carry the same ids in the same order
C15_DictKeepsSections ==
    pc = "expanded" =>
        /\ Len(practice_dict.sections) = Len(practice.sections)
        /\ \A i \in PracticeSections :
              /\ practice_dict.sections[i].name = practice.sections[i].name
              /\ practice_dict.sections[i].type = practice.sections[i].type
              /\ practice_dict.sections[i].question_ids
                     = practice.sections[i].question_ids
              /\ QuestionIds(practice_dict.sections[i].questions)
                     = practice.sections[i].question_ids

C15_Witness ==
    /\ pc = "expanded"
    /\ Len(practice_dict.sections) = 2
    /\ \E i \in PracticeSections :
          /\ Len(practice_dict.sections[i].questions) >= 2
          /\ practice_dict.sections[i].questions[1].id
                 > practice_dict.sections[i].questions[2].id

\* where the signed numeral starting at index first ends (last index + 1):
\* an optional sign, digits, an optional decimal part; 0 when none starts there
NumeralEnd(text, first) ==
    LET after_sign == IF IsSign(text[first]) THEN first + 1 ELSE first
        integer_end == DigitsEnd(text, after_sign)
        fraction_end == IF integer_end <= Len(text) /\ text[integer_end] = "."
                        THEN DigitsEnd(text, integer_end + 1) ELSE integer_end
    IN IF integer_end = after_sign THEN 0
       ELSE IF fraction_end > integer_end + 1 THEN fraction_end ELSE integer_end

NumeralStarts(text) == {i \in 1..Len(text) : NumeralEnd(text, i) # 0}

\* the first signed numeral of the text, "" when it holds none
FirstNumeral(text) ==
    IF NumeralStarts(text) = {} THEN <<>>
    ELSE LET first == CHOOSE i \in NumeralStarts(text) :
                          \A j \in NumeralStarts(text) : i <= j
         IN SubSeq(text, first, NumeralEnd(text, first) - 1)

\* the trailing signed numeral of the text, its final value: the numeral
\* that ends last, taken whole; "" when the text holds none
TrailingNumeral(text) ==
    IF NumeralStarts(text) = {} THEN <<>>
    ELSE LET last_end == CHOOSE e \in {NumeralEnd(text, i) : i \in NumeralStarts(text)} :
                             \A i \in NumeralStarts(text) : NumeralEnd(text, i) <= e
             first == CHOOSE i \in NumeralStarts(text) :
                          /\ NumeralEnd(text, i) = last_end
                          /\ \A j \in NumeralStarts(text) :
                                NumeralEnd(text, j) = last_end => i <= j
         IN SubSeq(text, first, last_end - 1)

\* the calculation questions of the expanded dict that carry solution steps
SolvedCalculations ==
    {x \in PracticePlaces :
        /\ practice_dict.sections[x[1]].questions[x[2]].type = "calculation"
        /\ "solution_steps"
               \in DOMAIN practice_dict.sections[x[1]].questions[x[2]]}

\* the text of the last solution step of the question at a place of the dict
LastStepAt(x) ==
    LET steps == practice_dict.sections[x[1]].questions[x[2]].solution_steps
    IN steps[Len(steps)].step

\* C24: the answer of a calculation question in the dict of practice_to_dict
\* is the first signed numeral of its last solution step, which is the
\* trailing final value of the step, and "" when the step holds no numeral;
\* practice_to_dict raises on no step text
C24_AnswerIsFinalValue ==
    /\ pc = "expanded" =>
          \A x \in SolvedCalculations :
              /\ practice_dict.sections[x[1]].questions[x[2]].answer
                     = FirstNumeral(LastStepAt(x))
              /\ practice_dict.sections[x[1]].questions[x[2]].answer
                     = TrailingNumeral(LastStepAt(x))
    /\ pc = "created" => ENABLED CallPracticeToDict

----------------------------------------------------------------------------
(* Properties of the positions *)

\* the questions of the student answer, section after section
RECURSIVE Flatten(_)
Flatten(sections) ==
    IF sections = <<>> THEN <<>> ELSE Head(sections).questions \o Flatten(Tail(sections))

FlatQuestions == Flatten(student_answer.sections)

\* the ids of the questions in that order, the questions without id left out
FlatIds ==
    LET identified == SelectSeq(FlatQuestions, LAMBDA q : q.id # "")
    IN [i \in 1..Len(identified) |-> identified[i].id]

SameBoxes(positions, area) ==
    /\ positions.bbox_2d = area.bbox_2d
    /\ positions.answer_bbox_2d = area.answer_bbox_2d

\* C16: when the areas are as many as the questions of the student answer,
\* the i-th question in the order of the sections carries the boxes of the
\* i-th area; when the positions are as many as the question ids, the marker
\* pairs position i with the result graded for the i-th id, and draws
\* nothing else
C16_MatchedInOrder ==
    /\ (step \in {"saved", "positioned", "marked"}
           /\ Len(question_areas) = Len(FlatQuestions)) =>
          \A i \in 1..Len(FlatQuestions) :
              /\ "positions" \in DOMAIN FlatQuestions[i]
              /\ SameBoxes(FlatQuestions[i].positions, question_areas[i])
    /\ (step = "marked" /\ Len(question_positions) = Len(FlatIds)) =>
          /\ \A i \in 1..Len(FlatIds) :
                \A r \in 1..Len(student_grading_results) :
                    student_grading_results[r].question_id = FlatIds[i] =>
                        \E k \in 1..Len(matched_pairs) :
                            /\ matched_pairs[k].position = question_positions[i]
                            /\ matched_pairs[k].grading_result
                                   = student_grading_results[r]
          /\ \A k \in 1..Len(matched_pairs) :
                \E i \in 1..Len(FlatIds) :
                    /\ matched_pairs[k].position = question_positions[i]
                    /\ matched_pairs[k].grading_result.question_id = FlatIds[i]

C16_Witness ==
    /\ step = "marked"
    /\ Len(FlatQuestions) = 3
    /\ Len(question_areas) = 3
    /\ Len(FlatIds) = 3
    /\ Len(matched_pairs) = 3
    /\ question_areas[1].question_type = "calculation"
    /\ question_areas[1].question_number = "2"

\* the areas the detector read as number n of type t
AreasNamed(t, n) ==
    {a \in 1..Len(question_areas) :
        /\ question_areas[a].question_type = t
        /\ question_areas[a].question_number = ToString(n)}

\* C17: when the areas are not as many as the questions, saving the
\* positions goes through, the n-th question of a section of type t carries
\* the boxes of an area read as number n of type t, and a question for
\* which there is no such area carries no positions
C17_FallbackByTypeAndNumber ==
    /\ step = "detected" => ENABLED CallSaveQuestionPositionsToSections
    /\ (step \in {"saved", "positioned", "marked"}
           /\ Len(question_areas) # Len(FlatQuestions)) =>
          \A s \in 1..Len(student_answer.sections) :
              \A n \in 1..Len(student_answer.sections[s].questions) :
                  LET question == student_answer.sections[s].questions[n]
                      named == AreasNamed(student_answer.sections[s].type, n)
                  IN IF named = {} THEN "positions" \notin DOMAIN question
                     ELSE /\ "positions" \in DOMAIN question
                          /\ \E a \in named :
                                SameBoxes(question.positions, question_areas[a])

C17_Witness ==
    /\ step = "saved"
    /\ Len(question_areas) = 2
    /\ Len(FlatQuestions) = 3
    /\ "positions" \in DOMAIN FlatQuestions[2]
    /\ "positions" \in DOMAIN FlatQuestions[3]
    /\ "positions" \notin DOMAIN FlatQuestions[1]

\* round(a / b) for b > 0: the nearest integer, the even one of two
RoundQuotient(a, b) ==
    LET q == a \div b
        r == a % b
    IN IF 2 * r < b THEN q
       ELSE IF 2 * r > b THEN q + 1
            ELSE IF q % 2 = 0 THEN q ELSE q + 1

\* C18: for a box of four integers and positive sizes,
\* convert_coords_to_original returns [round(x1*ow/rw), round(y1*oh/rh),
\* round(x2*ow/rw), round(y2*oh/rh)]
C18_RoundedScaling ==
    (step = "converted" /\ Len(conversion.bbox) = 4) =>
        conversion.result =
            <<RoundQuotient(conversion.bbox[1] * conversion.original_size[1],
                            conversion.resized_size[1]),
              RoundQuotient(conversion.bbox[2] * conversion.original_size[2],
                            conversion.resized_size[2]),
              RoundQuotient(conversion.bbox[3] * conversion.original_size[1],
                            conversion.resized_size[1]),
              RoundQuotient(conversion.bbox[4] * conversion.original_size[2],
                            conversion.resized_size[2])>>

\* the areas carry their sizes and the size asked for is not the resized one
MustRescale ==
    /\ \A a \in 1..Len(question_areas) :
          {"original_size", "resized_size"} \subseteq DOMAIN question_areas[a]
    /\ \A a \in 1..Len(question_areas) :
          image_size # question_areas[a].resized_size

\* C19: get_question_positions_for_grading emits one position per area; the
\* boxes are those convert_coords_to_original gives when the areas carry
\* their sizes and the size asked for differs from the resized size, and
\* the boxes of the areas themselves otherwise
C19_RescaledWhenNeeded ==
    step \in {"positioned", "marked"} =>
        /\ Len(question_positions) = Len(question_areas)
        /\ \A i \in 1..Len(question_areas) :
              LET area == question_areas[i]
              IN IF MustRescale
                 THEN /\ question_positions[i].bbox_2d =
                            ConvertCoordsToOriginal(area.bbox_2d, area.original_size,
                                                    area.resized_size)
                      /\ question_positions[i].answer_bbox_2d =
                            ConvertCoordsToOriginal(area.answer_bbox_2d,
                                                    area.original_size,
                                                    area.resized_size)
                 ELSE SameBoxes(question_positions[i], area)

C19_Witness ==
    /\ step = "positioned"
    /\ MustRescale
    /\ Len(question_areas) >= 2
    /\ \A i \in 1..Len(question_areas) :
          /\ question_positions[i].bbox_2d # question_areas[i].bbox_2d
          /\ question_positions[i].answer_bbox_2d # question_areas[i].answer_bbox_2d

----------------------------------------------------------------------------
(* Properties of the AI calls *)

Failed == ai_call.status \in {"raised", "garbled"}

\* the results of grading_results the judge failed on
JudgeFailed(result) ==
    Get(result, "final_answer_explanation", "") = JudgeFailureExplanation

\* C20: a call of the AI service that fails is answered with the safe
\* default of the function: the points of the local matcher, the
\* unknown-student record without sections, a result with overall_correct
\* false, no area; every function can be called with a failing service; a
\* calculation question the judge failed on counts as incorrect with the
\* marker, the report and the analysis
C20_FailuresAnswered ==
    /\ (ai_call.function = "extract_knowledge_points" /\ ai_call.status = "raised") =>
          /\ \A k \in 1..Len(returned) :
                \E w \in 1..Len(ai_call.text) :
                    Contains(returned[k].keywords, ai_call.text[w])
          /\ \A n \in 1..Len(AllKnowledgePoints) :
                (\E w \in 1..Len(ai_call.text) :
                    Contains(AllKnowledgePoints[n].keywords, ai_call.text[w]))
                => Contains(returned, AllKnowledgePoints[n])
    /\ (ai_call.function = "parse_student_answer_from_ocr" /\ Failed) =>
          /\ returned.name = UnknownStudentName
          /\ returned.sections = <<>>
    /\ (ai_call.function = "grade_calculation_question" /\ Failed) =>
          /\ "overall_correct" \in DOMAIN returned
          /\ returned.overall_correct = FALSE
    /\ (ai_call.function = "detect_question_areas" /\ Failed) => returned = <<>>
    /\ \A text \in Texts : ENABLED CallExtractKnowledgePoints(text, Raised)
    /\ \A response \in {Raised, Garbled} :
          /\ ENABLED CallParseStudentAnswerFromOcr(response)
          /\ ENABLED CallDetectQuestionAreas(response)
          /\ (phase = "grading" /\ Len(grading_results) < MaxJudged)
                => ENABLED JudgeCalculationQuestion(response, <<>>)
    /\ \A i \in Results :
          JudgeFailed(grading_results[i]) =>
              /\ IsQuestionIncorrect(grading_results[i])
              /\ ~IsQuestionCorrect(grading_results[i])
              /\ phase = "marked" => ~marks[i]
              /\ phase = "reported" => total_correct < Len(grading_results)
              /\ phase = "analyzed" =>
                    /\ total_errors >= 1
                    /\ \A k \in 1..Len(grading_results[i].knowledge_points) :
                          \E e \in 1..Len(ErrorPoints) :
                              ErrorPoints[e].outline
                                  = grading_results[i].knowledge_points[k].outline

C20_Witness ==
    /\ phase = "analyzed"
    /\ ai_call.function = "grade_calculation_question"
    /\ ai_call.status = "raised"
    /\ Len(grading_results) = 2
    /\ JudgeFailed(grading_results[2])
    /\ ~JudgeFailed(grading_results[1])
    /\ grading_results[2].knowledge_points # <<>>
    /\ Len(ErrorPoints) = 1

----------------------------------------------------------------------------
(* Properties of loading the dataset *)

\* the choice invariant: at least two choices, no choice id twice, exactly
\* one choice marked correct
ChoiceInvariant(cs) ==
    /\ Len(cs) >= 2
    /\ \A i, j \in 1..Len(cs) : i # j => cs[i].id # cs[j].id
    /\ Cardinality({i \in 1..Len(cs) : Get(cs[i], "is_correct", FALSE)}) = 1

\* the entries of the dataset that break the Question invariants
UnlawfulEntries ==
    LET entries == Get(dataset, "questions", <<>>)
    IN {i \in 1..Len(entries) :
           /\ Get(entries[i], "type", "") = "choice"
           /\ ~ChoiceInvariant(Get(entries[i], "choices", <<>>))}

\* C21: once the constructor of the bank has run on a dataset in which some
\* choice question has no single correct choice, fewer than two choices or a
\* repeated choice id, it has raised: no bank exists
C21_InvalidDatasetRefused ==
    (pc # "constructing" /\ UnlawfulEntries # {}) => pc = "raised"

----------------------------------------------------------------------------
(* Properties of the sessions and the handlers *)

\* the handlers that work on the session the teacher's browser shows
WorksOnShownSession ==
    {"process_student_images", "analyze_errors_only", "regenerate_with_new_session"}

\* teacher t's browser shows a session and the application's current session
\* is that session, with the practice shown
ActsOnShown(t) ==
    shown[t] # NothingShown =>
        /\ current_session.session_path = shown[t].session_path
        /\ Get(current_session.data, "practice_data", None) = shown[t].practice_data

\* C25: no state is shared between the teachers: when a teacher whose browser
\* shows a session has their images graded, their errors analysed or a
\* practice regenerated, the handler works on the session and the practice
\* that browser shows, whatever the other teacher generated or regenerated
\* in between
C25_TeachersShareNoState ==
    [][\A t \in Teachers :
          (app_call'.teacher = t /\ app_call'.handler \in WorksOnShownSession)
              => ActsOnShown(t)]_vars

\* the call of the marker draws on image i only what was parsed from image
\* i: the student answer handed over, if any, is the one parsed from that
\* image, and every result drawn is a result of that image's student
DrawnFromSameImage(call) ==
    /\ \A k \in 1..Len(call.student_answer) :
           call.student_answer[k].parsed_from = call.image
    /\ \A k \in 1..Len(call.student_grading_results) :
           call.student_grading_results[k].student_id = StudentId(call.image)

\* C26: every image process_student_images marks is marked with the student
\* answer and the grading results parsed from that same image, also when an
\* earlier image of the batch was skipped
C26_MarkedFromOwnImage ==
    \A k \in 1..Len(marking_calls) : DrawnFromSameImage(marking_calls[k])

\* the ids of the questions of a practice_data dict
PracticeQuestionIds(practice_data) ==
    LET sections == Get(practice_data, "sections", <<>>)
    IN UNION {{Get(sections[i], "questions", <<>>)[k].id :
                  k \in 1..Len(Get(sections[i], "questions", <<>>))} :
              i \in 1..Len(sections)}

\* C27: in the current session every grading result is the result of a
\* question of the session's current practice_data
C27_ResultsOfCurrentPractice ==
    LET results == Get(current_session.data, "grading_results", <<>>)
    IN \A k \in 1..Len(results) :
           results[k].question_id \in
               PracticeQuestionIds(Get(current_session.data, "practice_data", None))

\* the outlines regenerate_with_new_session has to practise: those of the
\* top error points of the current session's grading results
TopErrorOutlines ==
    Outlines(AnalyzeErrorKnowledgePoints(
                 Get(current_session.data, "grading_results", <<>>)).top_error_points)

CorrectResults == {k \in 1..Len(grading_results) : IsQuestionCorrect(grading_results[k])}

IncorrectResults == {k \in 1..Len(grading_results) : IsQuestionIncorrect(grading_results[k])}

\* C29: _is_question_incorrect is the negation of _is_question_correct on
\* every grading result, so the correct and the incorrect results together
\* are all the results, each counted once; also for a result without the
\* correctness field of its type
C29_IncorrectNegatesCorrect ==
    /\ \A k \in 1..Len(grading_results) :
           IsQuestionIncorrect(grading_results[k]) = ~IsQuestionCorrect(grading_results[k])
    /\ Cardinality(CorrectResults) + Cardinality(IncorrectResults) = Len(grading_results)

\* C30: a load_session whose load_from_path returned False (it answers that
\* the session data does not exist) leaves the session_path and the data of
\* the current session as they were before the call
C30_FailedLoadKeepsSession ==
    [][\A t \in Teachers : \A session_path \in LoadablePaths(session_files) :
          (/\ session_path # NoPath
           /\ ~LoadFromPath(current_session, session_files, session_path).ok
           /\ LoadSession(t, session_path))
              => /\ current_session'.session_path = current_session.session_path
                 /\ current_session'.data = current_session.data]_vars

====
